---- MODULE Spec2Model ----
(***************************************************************************)
(* Cardinal: container provisioning orchestrator.                          *)
(*                                                                         *)
(*   ContainerService  (Cardinal/src/services/ContainerService.js)         *)
(*   ProxmoxService    (Cardinal/src/services/ProxmoxService.js)           *)
(*   Container         (src/models/Container.js)                           *)
(*   CryptoUtils       (utils/crypto.js)                                   *)
(*   webhook layer     (index.js, routes/webhook.js, middleware/*.js,      *)
(*                      controllers/webhookController.js)                  *)
(*                                                                         *)
(* Specifications:                                                         *)
(*   Spec         the orchestrator: concurrent createContainer calls,      *)
(*                their deferred follow-ups and getContainerAccess, one    *)
(*                action per continuation of the async code (what runs     *)
(*                between awaits).  Date.now() is an input there: the loop *)
(*                tests of the two polling loops are answered by the       *)
(*                clock.                                                   *)
(*   SpecPoll     one polling loop (waitForTask / waitForContainerStart)   *)
(*                with the elapsed time computed in seconds;               *)
(*                SpecPollFair adds that every ready continuation runs.    *)
(*   SpecTaskPolls one run of waitForTask whose requests are counted.      *)
(*   SpecResolve  one run of getContainerIP.                               *)
(*   SpecMerge    the configuration createContainer posts.                 *)
(*   SpecNextId   the id createContainer takes: the one given, the one of  *)
(*                /cluster/nextid, or a random one.                        *)
(*   SpecCrypt    encrypt / decrypt and the stored password.               *)
(*   SpecPassword generatePassword over the bytes of the random source.    *)
(*   SpecStore    Container.create / updateStatus / getAll on the table    *)
(*                with its time columns.                                   *)
(*   SpecHttp     the webhook layer: authentication, validation, the       *)
(*                controller and the error handler.                        *)
(***************************************************************************)
EXTENDS Integers, Sequences, FiniteSets, TLC

(***************************************************************************)
(* JavaScript values.  A value is a tagged tuple, an object is a function  *)
(* from property names to values, an error message is a sequence of words. *)
(***************************************************************************)
Undefined == <<"undefined">>
Null == <<"null">>
Num(n) == <<"number", n>>
Str(s) == <<"string", s>>

\* !v
Falsy(v) == v \in {Undefined, Null, Num(0), Str("")}

\* a || b
Or(a, b) == IF Falsy(a) THEN b ELSE a

\* {}
EmptyObj == [k \in {} |-> Undefined]

\* o.k
Get(o, k) == IF k \in DOMAIN o THEN o[k] ELSE Undefined

\* { ...base, ...over }
Spread(base, over) ==
  [k \in (DOMAIN base) \cup (DOMAIN over) |->
     IF k \in DOMAIN over THEN over[k] ELSE base[k]]

\* Number.prototype.toString / String.prototype.toString, as a JS string
DigitChar == <<"0", "1", "2", "3", "4", "5", "6", "7", "8", "9">>

RECURSIVE Digits(_)
Digits(n) ==
  IF n < 10 THEN DigitChar[n + 1]
  ELSE Digits(n \div 10) \o DigitChar[(n % 10) + 1]

toString(v) == IF v[1] = "number" THEN Digits(v[2]) ELSE v[2]

\* String.prototype.includes on messages: pat occurs as a contiguous run
Includes(msg, pat) ==
  \E i \in 0..(Len(msg) - Len(pat)) :
     \A j \in 1..Len(pat) : msg[i + j] = pat[j]


(***************************************************************************)
(* Bounds of the model.                                                    *)
(***************************************************************************)
\* createContainer invocations that may be in flight together
MaxCalls == 2
\* polls one loop of a call may make before the clock answers "deadline passed"
MaxPolls == 2
\* SpecPoll: the longest a status request takes (the client gives up after 30 s)
MaxPollTime == 1
\* SpecPoll: a maxWaitTime other than the defaults
ShortWait == 7
\* SpecPoll: errors are counted up to this
MaxErrors == 2
\* SpecCrypt: records created
MaxRows == 2

Calls == 1..MaxCalls

(***************************************************************************)
(* The outside world: HTTP answers of the hypervisor, random sources.      *)
(* An axios answer is [ok, body, data] (ok = the promise resolved, body =  *)
(* "data" when response.data.data is truthy) or [ok = FALSE, message].     *)
(***************************************************************************)
Ok(d) == [ok |-> TRUE, body |-> "data", data |-> d, message |-> <<>>]
\* an answer without data, and a rejected request; d is the empty value of the
\* endpoint's data (Undefined for a scalar, EmptyObj for an object)
NoData(d) == [ok |-> TRUE, body |-> "empty", data |-> d, message |-> <<>>]
Err(d, m) == [ok |-> FALSE, body |-> "empty", data |-> d, message |-> m]

\* response.data && response.data.data
HasData(response) == response.ok /\ response.body = "data"

NetworkError == <<"Network", "Error">>
HttpError == <<"Request", "failed", "with", "status", "code", "500">>
AxiosErrors == {NetworkError, HttpError}
\* the hypervisor does not know the resource
HttpNotFound == <<"Request", "failed", "with", "status", "code", "404">>

\* process.env
Envs ==
  { EmptyObj,
    [CT_DEFAULT_USERNAME |-> Str("admin"), CT_DEFAULT_PASSWORD |-> Str("envpw"),
     CT_DEFAULT_CORES |-> Str("2")] }

\* crypto.randomBytes(16).toString('base64').slice(0, 16), as drawn
Passwords == <<"Xk3fQ9aa", "b7Lm2Zpp">>

\* bodies accepted by createContainerSchema (additionalConfig: any object)
Requests ==
  { [name |-> Str("ci-build"), hostname |-> Str("ci-01"),
     additionalConfig |-> EmptyObj],
    [name |-> Str("ci-build"), hostname |-> Str("ci-01"),
     jenkins_job_id |-> Str("job-7"),
     additionalConfig |-> [password |-> Str("weak")]],
    [name |-> Str("ci-build"), hostname |-> Str("ci-01"),
     additionalConfig |-> [vmid |-> Num(555)]] }

\* GET /cluster/nextid
NextIdReplies == {Ok(Str("101")), NoData(Undefined), Err(Undefined, NetworkError)}
\* Math.floor(Math.random() * 9000), as drawn
RandomFloors == {0}

\* POST /nodes/{node}/lxc
PostReplies ==
  {Ok(Str("UPID:pve:0001")), NoData(Undefined)}
    \cup {Err(Undefined, m) : m \in AxiosErrors}

\* GET /nodes/{node}/tasks/{taskId}/status
TaskReplies ==
  { Ok([status |-> Str("running")]),
    Ok([status |-> Str("stopped"), exitstatus |-> Str("0")]),
    Ok([status |-> Str("stopped"), exitstatus |-> Str("1")]),
    NoData(EmptyObj),
    Err(EmptyObj, HttpError) }

\* GET /nodes/{node}/lxc/{vmid}/status/current
StatusReplies ==
  { Ok([status |-> Str("running")]),
    Ok([status |-> Str("stopped")]),
    NoData(EmptyObj),
    Err(EmptyObj, HttpError) }

\* what an answer says, whatever the code makes of it
ReportsExit0(response) ==
  /\ response.ok /\ response.body = "data"
  /\ "status" \in DOMAIN response.data /\ response.data.status = Str("stopped")
  /\ "exitstatus" \in DOMAIN response.data /\ response.data.exitstatus = Str("0")

ReportsFailure(response) ==
  /\ response.ok /\ response.body = "data"
  /\ "status" \in DOMAIN response.data /\ response.data.status = Str("stopped")
  /\ ~ReportsExit0(response)

ReportsRunning(response) ==
  /\ response.ok /\ response.body = "data"
  /\ "status" \in DOMAIN response.data /\ response.data.status = Str("running")

(***************************************************************************)
(* CryptoUtils (utils/crypto.js).  A string that is split on ':' is kept   *)
(* as the sequence of its ':'-separated fields; the cipher is symbolic:    *)
(* the hex text produced for plaintext t under key k is <<"aes", k, t>>.   *)
(***************************************************************************)
\* this.key
EncryptionKey == "defaultkey"

\* crypto.randomBytes(16), as drawn
IVs == <<"iv1", "iv2">>

\* cipher.update(text) + cipher.final(): createCipher takes no IV
CipherHex(key, text) == <<"aes", key, text>>

\* as Encrypt, but the text is returned as it is
EncryptNothing(text, iv) == text

\* as Encrypt, but with a cipher whose output depends on the IV
EncryptWithIV(text, iv) ==
  IF Falsy(text) THEN Null
  ELSE <<"envelope", <<"hex", iv>>, <<"aes", EncryptionKey, text[2], iv>>>>

\* encrypt(text), iv the bytes drawn by this call
Encrypt(text, iv) ==
  IF Falsy(text) THEN Null
  ELSE <<"envelope", <<"hex", iv>>, CipherHex(EncryptionKey, text[2])>>

\* what a call that threw leaves in place of its value
Thrown(m) == <<"throw", m>>
IsThrown(v) == v[1] = "throw"

\* encryptedText.split(':')
SplitColon(encryptedText) == Tail(encryptedText)

\* as Decipher, but a missing text is deciphered as no text
DecipherMissingAsNull(key, encrypted) ==
  IF encrypted = Undefined THEN Null
  ELSE IF encrypted[1] = "aes" /\ encrypted[2] = key THEN Str(encrypted[3])
  ELSE Thrown("bad decrypt")

\* decipher.update(encrypted, 'hex', 'utf8') + decipher.final('utf8'):
\* createDecipher takes no IV either
Decipher(key, encrypted) ==
  IF encrypted = Undefined THEN Thrown("TypeError")
  ELSE IF encrypted[1] = "aes" /\ encrypted[2] = key THEN Str(encrypted[3])
  ELSE Thrown("bad decrypt")

\* as Decrypt, but without the test of the argument (null has no split)
DecryptNoGuard(encryptedText) ==
  LET parts == IF encryptedText \in {Undefined, Null} THEN <<>>
               ELSE SplitColon(encryptedText)
  IN  Decipher(EncryptionKey, IF Len(parts) >= 2 THEN parts[2] ELSE Undefined)

\* as Decrypt, but the text deciphered is parts[0]
DecryptFirstPart(encryptedText) ==
  IF Falsy(encryptedText) THEN Null
  ELSE LET parts == SplitColon(encryptedText)
       IN  Decipher(EncryptionKey, IF Len(parts) >= 1 THEN parts[1] ELSE Undefined)

\* as Decrypt, but with a decipher that is given the IV: the text comes out
\* under the IV it was enciphered with (here the first drawn) and under no other
DecryptWithIV(encryptedText) ==
  IF Falsy(encryptedText) THEN Null
  ELSE LET parts == SplitColon(encryptedText)
       IN  IF Len(parts) >= 2 /\ parts[1] # <<"hex", IVs[1]>> THEN Thrown("bad decrypt")
           ELSE Decipher(EncryptionKey, IF Len(parts) >= 2 THEN parts[2] ELSE Undefined)

\* decrypt(encryptedText): parts[0] is the iv, parts[1] is deciphered
Decrypt(encryptedText) ==
  IF Falsy(encryptedText) THEN Null
  ELSE LET parts == SplitColon(encryptedText)
       IN  Decipher(EncryptionKey, IF Len(parts) >= 2 THEN parts[2] ELSE Undefined)

\* the base64 alphabet of Buffer.toString('base64'), by sextet value + 1
Base64Chars ==
  << "A", "B", "C", "D", "E", "F", "G", "H", "I", "J", "K", "L", "M",
     "N", "O", "P", "Q", "R", "S", "T", "U", "V", "W", "X", "Y", "Z",
     "a", "b", "c", "d", "e", "f", "g", "h", "i", "j", "k", "l", "m",
     "n", "o", "p", "q", "r", "s", "t", "u", "v", "w", "x", "y", "z",
     "0", "1", "2", "3", "4", "5", "6", "7", "8", "9", "+", "/" >>

\* the characters of one group of up to three bytes, '=' for what is missing
Base64Group(b) ==
  LET b1 == b[1]
      b2 == IF Len(b) >= 2 THEN b[2] ELSE 0
      b3 == IF Len(b) >= 3 THEN b[3] ELSE 0
  IN  << Base64Chars[(b1 \div 4) + 1],
         Base64Chars[((b1 % 4) * 16 + (b2 \div 16)) + 1],
         IF Len(b) >= 2 THEN Base64Chars[((b2 % 16) * 4 + (b3 \div 64)) + 1] ELSE "=",
         IF Len(b) >= 3 THEN Base64Chars[(b3 % 64) + 1] ELSE "=" >>

\* buffer.toString('base64'), as the sequence of its characters
RECURSIVE ToBase64(_)
ToBase64(bytes) ==
  IF bytes = <<>> THEN <<>>
  ELSE IF Len(bytes) <= 3 THEN Base64Group(bytes)
  ELSE Base64Group(SubSeq(bytes, 1, 3)) \o ToBase64(SubSeq(bytes, 4, Len(bytes)))

\* string.slice(0, n)
Slice(string, n) == SubSeq(string, 1, IF n < Len(string) THEN n ELSE Len(string))

\* generatePassword(length = 16): the default parameter
DefaultLength == 16
LengthOf(length) == IF length = Undefined THEN DefaultLength ELSE length[2]

\* generatePassword(length), bytes what crypto.randomBytes(length) gave
GeneratePassword(length, bytes) == Slice(ToBase64(bytes), LengthOf(length))

(***************************************************************************)
(* Container (src/models/Container.js) over the containers table           *)
(* (models/database.js).  db is the table in insertion order.              *)
(***************************************************************************)
\* a bound parameter: undefined is stored as NULL
SqlValue(v) == IF v = Undefined THEN Null ELSE v

UniqueViolation ==
  <<"SQLITE_CONSTRAINT:", "UNIQUE", "constraint", "failed:", "containers.ct_id">>
NotNullViolation ==
  <<"SQLITE_CONSTRAINT:", "NOT", "NULL", "constraint", "failed">>

\* as ConstraintError, but name is declared UNIQUE as well
ConstraintErrorUniqueName(table, ct_id, name, username, password) ==
  IF Null \in {SqlValue(ct_id), SqlValue(name), SqlValue(username), SqlValue(password)}
  THEN NotNullViolation
  ELSE IF \E i \in DOMAIN table : table[i].ct_id = ct_id
  THEN UniqueViolation
  ELSE IF \E i \in DOMAIN table : table[i].name = name
  THEN <<"SQLITE_CONSTRAINT:", "UNIQUE", "constraint", "failed:", "containers.name">>
  ELSE <<>>

\* as ConstraintError, but ct_id is not declared UNIQUE
ConstraintErrorNoUnique(table, ct_id, name, username, password) ==
  IF Null \in {SqlValue(ct_id), SqlValue(name), SqlValue(username), SqlValue(password)}
  THEN NotNullViolation
  ELSE <<>>

\* the constraints of CREATE TABLE containers; <<>> when the row is accepted
ConstraintError(table, ct_id, name, username, password) ==
  IF Null \in {SqlValue(ct_id), SqlValue(name), SqlValue(username), SqlValue(password)}
  THEN NotNullViolation
  ELSE IF \E i \in DOMAIN table : table[i].ct_id = ct_id
  THEN UniqueViolation
  ELSE <<>>

\* as NewRow, but the status column defaults to 'running'
NewRowRunning(id, ct_id, name, username, encryptedPassword, jenkins_job_id) ==
  [id |-> id, ct_id |-> ct_id, name |-> name, ip_address |-> Null,
   username |-> username, password |-> encryptedPassword,
   status |-> Str("running"), jenkins_job_id |-> SqlValue(jenkins_job_id)]

\* the row INSERT INTO containers (ct_id, name, username, password,
\* jenkins_job_id) writes, with the defaults of the table
NewRow(id, ct_id, name, username, encryptedPassword, jenkins_job_id) ==
  [id |-> id, ct_id |-> ct_id, name |-> name, ip_address |-> Null,
   username |-> username, password |-> encryptedPassword,
   status |-> Str("creating"), jenkins_job_id |-> SqlValue(jenkins_job_id)]

\* as UpdateStatus, but ip_address = ? is always part of the statement
UpdateStatusAlwaysAddress(table, ct_id, status, ip_address) ==
  [i \in DOMAIN table |->
     IF table[i].ct_id = ct_id
     THEN [table[i] EXCEPT !.status = status, !.ip_address = SqlValue(ip_address)]
     ELSE table[i]]

\* as UpdateStatus, but without the WHERE clause
UpdateStatusEveryRow(table, ct_id, status, ip_address) ==
  [i \in DOMAIN table |->
     [table[i] EXCEPT !.status = status,
                      !.ip_address = IF Falsy(ip_address) THEN @ ELSE ip_address]]

\* Container.updateStatus: UPDATE containers SET status = ?
\* [, ip_address = ?] WHERE ct_id = ?
UpdateStatus(table, ct_id, status, ip_address) ==
  [i \in DOMAIN table |->
     IF table[i].ct_id = ct_id
     THEN [table[i] EXCEPT !.status = status,
                           !.ip_address = IF Falsy(ip_address) THEN @ ELSE ip_address]
     ELSE table[i]]

\* Container.findByCtId: is there a row
HasCtId(table, ct_id) == \E i \in DOMAIN table : table[i].ct_id = ct_id

\* Container.findByCtId: the row, its password decrypted
FindByCtId(table, ct_id) ==
  LET row == table[CHOOSE i \in DOMAIN table : table[i].ct_id = ct_id]
  IN  [row EXCEPT !.password = Decrypt(row.password)]

\* the time columns of the table: created_at and updated_at DEFAULT
\* CURRENT_TIMESTAMP, now the second the INSERT runs in
TimedRow(row, now) ==
  [id |-> row.id, ct_id |-> row.ct_id, name |-> row.name,
   ip_address |-> row.ip_address, username |-> row.username,
   password |-> row.password, status |-> row.status,
   jenkins_job_id |-> row.jenkins_job_id,
   created_at |-> now, updated_at |-> now]

\* as UpdateStatusAt, but without updated_at = CURRENT_TIMESTAMP
UpdateStatusAtNoStamp(table, ct_id, status, ip_address, now) ==
  UpdateStatus(table, ct_id, status, ip_address)

\* Container.updateStatus on the table with its time columns:
\* SET status = ?, updated_at = CURRENT_TIMESTAMP [, ip_address = ?]
UpdateStatusAt(table, ct_id, status, ip_address, now) ==
  LET updated == UpdateStatus(table, ct_id, status, ip_address)
  IN  [i \in DOMAIN table |->
         IF table[i].ct_id = ct_id
         THEN [updated[i] EXCEPT !.updated_at = now]
         ELSE updated[i]]

\* this.changes of the UPDATE
Changes(table, ct_id) == Cardinality({i \in DOMAIN table : table[i].ct_id = ct_id})

\* the orders SELECT * FROM containers ORDER BY created_at DESC may give the
\* rows in: rows of one second come in an order the statement does not fix
CreatedAtDesc(table) ==
  {order \in [DOMAIN table -> DOMAIN table] :
     /\ \A i, j \in DOMAIN table : i # j => order[i] # order[j]
     /\ \A i, j \in DOMAIN table :
          i < j => table[order[i]].created_at >= table[order[j]].created_at}

\* Container.getAll: the rows in the order given, passwords decrypted
GetAll(table, order) ==
  [i \in DOMAIN table |->
     [table[order[i]] EXCEPT !.password = Decrypt(@)]]

\* ContainerService.listContainers: the fields it keeps of each container
ListContainers(containers) ==
  [i \in DOMAIN containers |->
     [id |-> containers[i].id, ct_id |-> containers[i].ct_id,
      name |-> containers[i].name, ip_address |-> containers[i].ip_address,
      username |-> containers[i].username, status |-> containers[i].status,
      jenkins_job_id |-> containers[i].jenkins_job_id,
      created_at |-> containers[i].created_at]]

(***************************************************************************)
(* ProxmoxService (Cardinal/src/services/ProxmoxService.js).               *)
(* Times are in seconds.                                                   *)
(***************************************************************************)
TaskMaxWait == 300
StartMaxWait == 120
TaskPollInterval == 2
StartPollInterval == 3
TaskRetryDelay == 5
StartRetryDelay == 5
GraceDelay == 5
FollowUpDelay == 10

\* `${v}`
Interp(v) ==
  IF v = Undefined THEN "undefined"
  ELSE IF v = Null THEN "null"
  ELSE toString(v)

\* parseInt of a number or of a string of digits
ParseInt(v) ==
  IF v[1] = "number" THEN v
  ELSE Num(CHOOSE n \in 0..9999 : Digits(n) = v[2])

\* Math.floor(Math.random() * 9000), random the fraction <<n, d>> drawn in [0, 1)
RandomFloor(random) == (random[1] * 9000) \div random[2]

\* as GetNextVMID, but the random id is not moved up by 1000
GetNextVMIDNoBase(response, floor) ==
  IF HasData(response) THEN ParseInt(response.data) ELSE Num(floor)

\* getNextVMID: the answer of /cluster/nextid, else a random id
GetNextVMID(response, floor) ==
  IF HasData(response) THEN ParseInt(response.data) ELSE Num(floor + 1000)

\* config.additionalConfig, spread: nothing when absent
AdditionalOf(config) ==
  IF "additionalConfig" \in DOMAIN config THEN config.additionalConfig ELSE EmptyObj

\* createContainer: const containerConfig = { ... }; nextId is the value of
\* config.vmid || await this.getNextVMID()
ContainerConfig(config, environment, nextId) ==
  Spread(
    [vmid |-> nextId,
     ostemplate |-> Or(Get(config, "ostemplate"), Get(environment, "CT_DEFAULT_OSTEMPLATE")),
     hostname |-> Get(config, "hostname"),
     cores |-> Or(Or(Get(config, "cores"), Get(environment, "CT_DEFAULT_CORES")), Num(1)),
     memory |-> Or(Or(Get(config, "memory"), Get(environment, "CT_DEFAULT_MEMORY")), Num(512)),
     swap |-> Or(Get(config, "swap"), Num(512)),
     net0 |-> Or(Get(config, "net0"), Str("name=eth0,bridge=vmbr0,ip=dhcp")),
     rootfs |-> Or(Get(config, "rootfs"),
                   Str("local-lvm:" \o
                       Interp(Or(Or(Get(config, "disk"), Get(environment, "CT_DEFAULT_DISK")),
                                 Num(8))))),
     storage |-> Or(Get(config, "storage"), Str("local-lvm")),
     password |-> Or(Or(Get(config, "password"), Get(environment, "CT_DEFAULT_PASSWORD")),
                     Str("password")),
     unprivileged |-> IF Get(config, "unprivileged") # Undefined
                      THEN Get(config, "unprivileged") ELSE Num(1),
     start |-> IF Get(config, "start") # Undefined THEN Get(config, "start") ELSE Num(1)],
    AdditionalOf(config))

\* createContainerWithFullConfig: const config = { ... }, then createContainer
FullConfig(containerData) ==
  [vmid |-> Get(containerData, "vmid"),
   hostname |-> Get(containerData, "hostname"),
   ostemplate |-> Get(containerData, "ostemplate"),
   cores |-> Or(Get(containerData, "cores"), Num(1)),
   memory |-> Or(Get(containerData, "memory"), Num(512)),
   swap |-> Or(Get(containerData, "swap"), Num(512)),
   rootfs |-> Or(Get(containerData, "rootfs"),
                 Str("local-lvm:" \o Interp(Or(Get(containerData, "disk"), Num(8))))),
   storage |-> Or(Get(containerData, "storage"), Str("local-lvm")),
   net0 |-> Or(Get(containerData, "net0"), Str("name=eth0,bridge=vmbr0,ip=dhcp")),
   password |-> Or(Get(containerData, "password"), Str("password")),
   unprivileged |-> IF Get(containerData, "unprivileged") # Undefined
                    THEN Get(containerData, "unprivileged") ELSE Num(1),
   start |-> IF Get(containerData, "start") # Undefined
             THEN Get(containerData, "start") ELSE Num(1)]

\* SpecMerge: process.env, and the configurations a caller passes (a property
\* the caller left out is undefined)
MergeEnvs ==
  Envs \cup {[CT_DEFAULT_MEMORY |-> Str("1024"), CT_DEFAULT_DISK |-> Str("16")]}

MergeConfigs ==
  { [hostname |-> Str("ci-01"), cores |-> cores, memory |-> memory, swap |-> swap,
     disk |-> disk, net0 |-> net0, password |-> password,
     unprivileged |-> unprivileged, start |-> start] :
      cores \in {Undefined, Num(0), Num(4)},
      memory \in {Undefined, Num(2048)},
      swap \in {Undefined, Num(0), Num(1024)},
      disk \in {Undefined, Num(0), Num(20)},
      net0 \in {Undefined, Str(""), Str("name=eth0,bridge=vmbr1,ip=10.0.0.9/24")},
      password \in {Undefined, Str(""), Str("s3cret")},
      unprivileged \in {Undefined, Num(0)},
      start \in {Undefined, Num(0)} }

\* SpecNextId: the configurations given to createContainer, the answers of
\* /cluster/nextid and the fractions Math.random() gives
IdConfigs ==
  { [hostname |-> Str("ci-01")],
    [hostname |-> Str("ci-01"), vmid |-> Num(0)],
    [hostname |-> Str("ci-01"), vmid |-> Num(200)] }
NextIdAnswers ==
  { Ok(Str("101")), Ok(Str("9999")), Ok(Num(250)),
    NoData(Undefined), Err(Undefined, NetworkError), Err(Undefined, HttpError) }
RandomDraws ==
  { <<0, 1>>, <<1, 9000>>, <<1, 3>>, <<1, 2>>, <<2, 3>>, <<8999, 9000>>, <<99999, 100000>> }

\* SpecCrypt: the texts given to encrypt and to Container.create, the ids
CryptTexts ==
  { Undefined, Null, Str(""), Str("Xk3fQ9aa"), Str("b7Lm2Zpp"), Str("p:w"), Str("a") }

CryptIds == {Str("101"), Str("102")}

\* SpecStore: the seconds of the clock, and the arguments of updateStatus
MaxTime == 2
StoreIds == CryptIds \cup {Str("999")}
StoreStatuses == {Str("running"), Str("stopped")}
StoreAddresses == {Null, Str(""), Str("10.0.0.5")}

\* SpecPassword: the lengths asked of generatePassword (undefined: none
\* given), and the values a random byte takes
MaxLength == 3
Lengths == {Undefined} \cup {Num(n) : n \in 1..MaxLength}
ByteValues == {0, 65, 251, 255}

\* crypto.randomBytes(n): n bytes, here a drawn pattern repeated
BytePatterns == UNION {[1..n -> ByteValues] : n \in 1..MaxLength}
RandomBytes(n, pattern) == [i \in 1..n |-> pattern[((i - 1) % Len(pattern)) + 1]]

\* SpecCrypt: the texts given to decrypt: nothing, the empty string, texts
\* without ':', an envelope made by encrypt, one made under another key
CryptEnvelopes ==
  { Undefined, Null, Str(""),
    <<"envelope", <<"text", "garbage">>>>,
    <<"envelope", CipherHex(EncryptionKey, "a")>>,
    <<"envelope", <<"hex", "iv1">>>>,
    <<"envelope", <<"hex", "iv1">>, CipherHex(EncryptionKey, "a")>>,
    <<"envelope", <<"hex", "iv2">>, CipherHex("otherkey", "a")>> }

\* what one turn of a polling loop does with the answer to its poll
Return == [kind |-> "return", delay |-> 0, message |-> <<>>]
Throw(m) == [kind |-> "throw", delay |-> 0, message |-> m]

\* as Sleep, but the wait takes no time
SleepNoDelay(d) == [kind |-> "sleep", delay |-> 0, message |-> <<>>]

\* await new Promise(resolve => setTimeout(resolve, d))
Sleep(d) == [kind |-> "sleep", delay |-> d, message |-> <<>>]

TaskFailed(exitstatus) ==
  <<"Task", "failed", "with", "exit", "status:", Interp(exitstatus)>>
TaskTimeout == <<"Task", "timeout:", "operation", "took", "too", "long">>
StartTimeout == <<"Container", "start", "timeout">>
InvalidResponse == <<"Invalid", "container", "creation", "response">>

\* as TaskCatch, but nothing is rethrown
TaskCatchRetryAll(message) == Sleep(TaskRetryDelay)

\* as TaskCatch, but the test is for the word 'failed'
TaskCatchFailedWord(message) ==
  IF Includes(message, <<"failed">>) THEN Throw(message)
  ELSE Sleep(TaskRetryDelay)

\* waitForTask: catch (error)
TaskCatch(message) ==
  IF Includes(message, <<"Task", "failed">>) THEN Throw(message)
  ELSE Sleep(TaskRetryDelay)

\* as WaitForTaskOnReply, but the wait between two requests is a second shorter
WaitForTaskShortWait(response) ==
  IF ~response.ok THEN TaskCatch(response.message)
  ELSE IF HasData(response) /\ Get(response.data, "status") = Str("stopped")
  THEN IF Get(response.data, "exitstatus") = Str("0")
       THEN Return
       ELSE TaskCatch(TaskFailed(Get(response.data, "exitstatus")))
  ELSE Sleep(TaskPollInterval - 1)

\* waitForTask: the body of the loop, given the answer to the status request
WaitForTaskOnReply(response) ==
  IF ~response.ok THEN TaskCatch(response.message)
  ELSE IF HasData(response) /\ Get(response.data, "status") = Str("stopped")
  THEN IF Get(response.data, "exitstatus") = Str("0")
       THEN Return
       ELSE TaskCatch(TaskFailed(Get(response.data, "exitstatus")))
  ELSE Sleep(TaskPollInterval)

\* getContainerStatus: the status, 'unknown' without data, the error rethrown
GetContainerStatus(response) ==
  IF ~response.ok THEN [threw |-> TRUE, status |-> Undefined, message |-> response.message]
  ELSE IF HasData(response)
  THEN [threw |-> FALSE, status |-> Get(response.data, "status"), message |-> <<>>]
  ELSE [threw |-> FALSE, status |-> Str("unknown"), message |-> <<>>]

\* as WaitForStartOnReply, but with the same wait after an error
WaitForStartOneDelay(response) ==
  LET r == GetContainerStatus(response)
  IN  IF ~r.threw /\ r.status = Str("running") THEN Return
      ELSE Sleep(StartPollInterval)

\* as WaitForStartOnReply, but any answered status counts as started
WaitForStartOnAnyStatus(response) ==
  IF GetContainerStatus(response).threw THEN Sleep(StartRetryDelay) ELSE Return

\* as WaitForStartOnReply, but a resource the hypervisor does not know ends the loop
WaitForStartRethrowNotFound(response) ==
  LET r == GetContainerStatus(response)
  IN  IF r.threw /\ r.message = HttpNotFound THEN Throw(r.message)
      ELSE IF r.threw THEN Sleep(StartRetryDelay)
      ELSE IF r.status = Str("running") THEN Return
      ELSE Sleep(StartPollInterval)

\* waitForContainerStart: the body of the loop
WaitForStartOnReply(response) ==
  LET r == GetContainerStatus(response)
  IN  IF r.threw THEN Sleep(StartRetryDelay)
      ELSE IF r.status = Str("running") THEN Return
      ELSE Sleep(StartPollInterval)

\* as LoopTest, but the deadline itself is still in time
LoopTestInclusive(elapsed, maxWaitTime) == elapsed <= maxWaitTime

\* while (Date.now() - startTime < maxWaitTime)
LoopTest(elapsed, maxWaitTime) == elapsed < maxWaitTime

(***************************************************************************)
(* getContainerIP.  A text the code scans is kept as the sequence of its   *)
(* lexemes: for net0 the delimiters "ip=", "," and "/" are lexemes of      *)
(* their own; for an address a leading "127." is.                          *)
(***************************************************************************)
RECURSIVE Concat(_)
Concat(tokens) ==
  IF tokens = <<>> THEN "" ELSE Head(tokens) \o Concat(Tail(tokens))

Min(S) == CHOOSE x \in S : \A y \in S : x <= y

\* netConfig.match(/ip=([^,]+)/): where the first match starts, 0 for none
IpMatchAt(netConfig) ==
  LET at == {i \in 1..(Len(netConfig) - 1) : netConfig[i] = "ip=" /\ netConfig[i + 1] # ","}
  IN  IF at = {} THEN 0 ELSE Min(at)

\* ipMatch[1]: the lexemes up to the next comma
IpMatch1(netConfig) ==
  LET i == IpMatchAt(netConfig)
      commas == {j \in (i + 1)..Len(netConfig) : netConfig[j] = ","}
      end == IF commas = {} THEN Len(netConfig) + 1 ELSE Min(commas)
  IN  SubSeq(netConfig, i + 1, end - 1)

\* as BeforeSlash, but nothing is cut
BeforeSlashKeep(tokens) == tokens

\* text.split('/')[0]
BeforeSlash(tokens) ==
  LET slashes == {j \in 1..Len(tokens) : tokens[j] = "/"}
  IN  IF slashes = {} THEN tokens ELSE SubSeq(tokens, 1, Min(slashes) - 1)

\* the address the declared configuration gives: [found, ip]
StaticAddress(response) ==
  IF HasData(response) /\ "net0" \in DOMAIN response.data
       /\ response.data.net0 # <<>>
       /\ IpMatchAt(response.data.net0) # 0
       /\ Concat(IpMatch1(response.data.net0)) # "dhcp"
  THEN [found |-> TRUE, ip |-> Str(Concat(BeforeSlash(IpMatch1(response.data.net0))))]
  ELSE [found |-> FALSE, ip |-> Null]

\* as UsableAddress, but without the test for loopback
UsableAddressAnyIPv4(ip) == ip.type = "ipv4"

\* ip['ip-address-type'] === 'ipv4' && !ip['ip-address'].startsWith('127.')
UsableAddress(ip) == ip.type = "ipv4" /\ (ip.address = <<>> \/ ip.address[1] # "127.")

\* the same test on an entry without 'ip-address' is a TypeError
TestThrows(ip) == ip.type = "ipv4" /\ "address" \notin DOMAIN ip

\* the addresses the two nested for loops visit, in order
RECURSIVE Eth0Addresses(_)
Eth0Addresses(interfaces) ==
  IF interfaces = <<>> THEN <<>>
  ELSE (IF Head(interfaces).name = "eth0" /\ "ip_addresses" \in DOMAIN Head(interfaces)
        THEN Head(interfaces).ip_addresses ELSE <<>>)
         \o Eth0Addresses(Tail(interfaces))

\* the agent part of getContainerIP: first usable address, else null; a
\* failed agent request, an answer without result (for ... of undefined) and
\* an entry that makes the test throw are caught and give null
AgentAddress(agentResponse) ==
  IF HasData(agentResponse) /\ "result" \in DOMAIN agentResponse.data
  THEN LET all == Eth0Addresses(agentResponse.data.result)
           stops == {i \in 1..Len(all) : TestThrows(all[i]) \/ UsableAddress(all[i])}
       IN  IF stops = {} THEN Null
           ELSE IF TestThrows(all[Min(stops)]) THEN Null
           ELSE Str(Concat(all[Min(stops)].address))
  ELSE Null

\* GET /nodes/{node}/lxc/{vmid}/config
ConfigReplies ==
  { Ok([net0 |-> <<"name=eth0", ",", "bridge=vmbr0", ",", "ip=", "dhcp">>]),
    Ok([net0 |-> <<"name=eth0", ",", "ip=", "10.0.0.5", "/", "24", ",", "gw=10.0.0.1">>]),
    Ok([net0 |-> <<"name=eth0", ",", "ip=", "/", "24">>]),
    Ok([hostname |-> <<"ci-01">>]),
    NoData(EmptyObj),
    Err(EmptyObj, NetworkError) }

\* GET /nodes/{node}/lxc/{vmid}/agent/network-get-interfaces
AgentReplies ==
  { Ok([result |->
          << [name |-> "lo",
              ip_addresses |-> <<[type |-> "ipv4", address |-> <<"127.", "0.0.1">>]>>],
             [name |-> "eth0",
              ip_addresses |-> << [type |-> "ipv6", address |-> <<"fe80::1">>],
                                  [type |-> "ipv4", address |-> <<"10.0.0.5">>] >>] >>]),
    Ok([result |-> << [name |-> "eth0", ip_addresses |-> <<>>] >>]),
    NoData(EmptyObj),
    Err(EmptyObj, HttpError) }

\* what getContainerIP does with the answer to the configuration request
ReturnIp(ip) == [kind |-> "return", ip |-> ip, message |-> <<>>]
AskAgent == [kind |-> "agent", ip |-> Undefined, message |-> <<>>]

\* as OuterCatch, but the error is rethrown
OuterCatchRethrow(message) == [kind |-> "throw", ip |-> Undefined, message |-> message]

\* getContainerIP: catch (error) { ...; return null }
OuterCatch(message) == ReturnIp(Null)

ResolveOnConfig(response) ==
  IF ~response.ok THEN OuterCatch(response.message)
  ELSE IF StaticAddress(response).found THEN ReturnIp(StaticAddress(response).ip)
  ELSE AskAgent

\* SpecResolve: values of net0, as prefix, ip part and suffix
NetConfigs ==
  { prefix \o ippart \o suffix :
      prefix \in {<<>>, <<"name=eth0", ",", "bridge=vmbr0", ",">>},
      ippart \in { <<"hwaddr=BC:24">>, <<"ip=", "dhcp">>, <<"ip=", "manual">>,
                   <<"ip=", "10.0.0.5", "/", "24">>, <<"ip=", "192.168.1.20", "/", "16">>,
                   <<"ip=", "10.0.0.5">>, <<"ip=", "/", "24">> },
      suffix \in {<<>>, <<",", "gw=10.0.0.1">>} }

ResolveConfigReplies ==
  {Ok([net0 |-> n]) : n \in NetConfigs}
    \cup { Ok([net0 |-> <<>>]), Ok([hostname |-> <<"ci-01">>]),
           NoData(EmptyObj), Err(EmptyObj, NetworkError) }

\* SpecResolve: entries of 'ip-addresses', lists of them, interfaces
AddressEntries ==
  { [type |-> "ipv4", address |-> <<"127.", "0.0.1">>],
    [type |-> "ipv6", address |-> <<"fe80::1">>],
    [type |-> "ipv4", address |-> <<"10.0.0.5">>],
    [type |-> "ipv4", address |-> <<"10.0.0.6">>],
    [type |-> "ipv4"] }

AddressLists ==
  {<<>>} \cup {<<a>> : a \in AddressEntries}
         \cup {<<a, b>> : a \in AddressEntries, b \in AddressEntries}

Interfaces ==
  {[name |-> n, ip_addresses |-> l] : n \in {"eth0", "eth1"}, l \in AddressLists}
    \cup {[name |-> "eth0"]}

ResolveAgentReplies ==
  {Ok([result |-> <<i>>]) : i \in Interfaces}
    \cup {Ok([result |-> <<i, j>>]) : i \in Interfaces, j \in Interfaces}
    \cup { Ok([result |-> <<>>]), Ok([error |-> <<"no", "agent">>]),
           NoData(EmptyObj), Err(EmptyObj, HttpError) }

(***************************************************************************)
(* State.                                                                  *)
(***************************************************************************)
VARIABLES
  env,      \* process.env, read by both services
  db,       \* the containers table
  lastID,   \* AUTOINCREMENT of containers.id
  calls,    \* the createContainer invocations, by call
  access,   \* the answer of the latest getContainerAccess, until the next event
  loop,     \* SpecPoll: the polling loop under observation
  resolve,  \* SpecResolve: the getContainerIP invocation under observation
  merge,    \* SpecMerge: the configuration merge under observation
  crypt,    \* SpecCrypt: the encrypt / decrypt calls under observation
  store,    \* SpecStore: the clock of the table and the Container call under observation
  http      \* SpecHttp: the server and the request under observation

vars == <<env, db, lastID, calls, access, loop, resolve, merge, crypt, store, http>>

IdleCall ==
  [pc |-> "idle",                 \* where the invocation stands
   requestData |-> EmptyObj,
   containerPassword |-> Undefined,
   containerUsername |-> Undefined,
   containerConfig |-> EmptyObj,  \* the body of the POST, once sent
   posted |-> FALSE,
   taskId |-> Undefined,
   polls |-> 0,                   \* requests the current polling loop has sent
   taskOk |-> FALSE,              \* waitForTask returned true
   startOk |-> FALSE,             \* waitForContainerStart returned true
   taskExit0 |-> FALSE,           \* the hypervisor reported the task stopped, exit "0"
   seenRunning |-> FALSE,         \* the hypervisor reported the resource running
   proxmoxResult |-> EmptyObj,    \* what ProxmoxService.createContainer returned
   result |-> EmptyObj,           \* what ContainerService.createContainer returned
   error |-> <<>>,                \* the message it threw
   timer |-> "none",              \* the follow-up: none, scheduled, grace, config, agent, done
   polledVmid |-> Undefined,      \* the id waitForContainerStart is given
   ipVmid |-> Undefined,          \* the follow-up: the id getContainerIP is given
   updatedCtId |-> Undefined,     \* the follow-up: the ct_id updateStatus is given
   ip |-> Undefined]              \* the follow-up: what getContainerIP returned

NoAccess == [ct_id |-> Undefined, granted |-> FALSE, access |-> EmptyObj, message |-> <<>>]

IdleLoop ==
  [fn |-> "none",                 \* waitForTask or waitForContainerStart
   maxWaitTime |-> 0,
   elapsed |-> 0,                 \* Date.now() - startTime
   pc |-> "idle",                 \* idle, test, request, sleep, returned, threw
   delay |-> 0,                   \* the wait in progress
   polledAt |-> 0,                \* elapsed when the latest request was sent
   repliedAt |-> 0,               \* elapsed when it was answered
   last |-> NoData(EmptyObj),     \* the latest answer
   answered |-> FALSE,            \* some request has been answered
   errors |-> 0,                  \* answers that were errors (counted up to MaxErrors)
   counting |-> FALSE,            \* the requests of this run are counted
   polls |-> 0,                   \* requests sent while no answer was an error
   prevPolledAt |-> -1,           \* elapsed when the request before the latest was sent
   message |-> <<>>]              \* the message thrown

IdleResolve ==
  [pc |-> "idle",                 \* idle, config, agent, returned, threw
   config |-> NoData(EmptyObj),   \* the answer to the configuration request
   agent |-> NoData(EmptyObj),    \* the answer to the agent request
   asked |-> FALSE,               \* the agent request was sent
   ip |-> Undefined,              \* what getContainerIP returned
   message |-> <<>>]              \* the message it threw

IdleMerge ==
  [pc |-> "idle",                 \* idle, merged
   fn |-> "none",                 \* the method the caller invoked
   config |-> EmptyObj,           \* its argument
   containerConfig |-> EmptyObj,  \* the body of the POST
   asked |-> FALSE,               \* getNextVMID was called
   response |-> EmptyObj,         \* what /cluster/nextid answered
   random |-> <<>>,               \* what Math.random() gave, if called
   nextId |-> Undefined]          \* what getNextVMID returned

IdleCrypt ==
  [pc |-> "idle",                 \* idle, encrypted, again, decrypted, both, threw
   text |-> Undefined,            \* the argument of encrypt
   encrypted |-> Undefined,       \* what encrypt returned
   again |-> Undefined,           \* what a second encrypt of the same text returned
   length |-> Undefined,          \* the argument of generatePassword
   bytes |-> <<>>,                \* the random bytes it drew
   generated |-> <<>>,            \* the characters it returned
   decrypted |-> Undefined,       \* what decrypt returned for it
   other |-> Undefined,           \* the same envelope under another IV text
   decryptedOther |-> Undefined,  \* what decrypt returned for that one
   created |-> <<>>,              \* the passwords given to Container.create, by row
   found |-> EmptyObj]            \* what Container.findByCtId resolved with

IdleStore ==
  [now |-> 0,                     \* CURRENT_TIMESTAMP, in seconds
   op |-> "none",                 \* the latest call: none, create, updateStatus, getAll
   ct_id |-> Undefined,           \* the arguments of the latest updateStatus
   status |-> Undefined,
   ip_address |-> Undefined,
   at |-> 0,                      \* the second the latest updateStatus ran in
   before |-> <<>>,               \* the table before the latest updateStatus
   changed |-> FALSE,             \* what the latest updateStatus resolved with
   lastWrite |-> <<>>,            \* by row, the second of its latest INSERT or UPDATE
   containers |-> <<>>,           \* what the latest getAll resolved with
   listed |-> <<>>]               \* what listContainers made of it

IdleHttp ==
  [pc |-> "off",                  \* off, up (listening), answered (a request was)
   expectedSecret |-> Undefined,  \* process.env.WEBHOOK_SECRET
   production |-> FALSE,          \* process.env.NODE_ENV === 'production'
   route |-> "none",              \* the latest request: method and path
   headers |-> EmptyObj,          \* req.headers
   body |-> EmptyObj,             \* req.body
   handler |-> FALSE,             \* a method of WebhookController was invoked
   service |-> FALSE,             \* a method of ContainerService was invoked
   status |-> 0,                  \* the status of the response
   error |-> <<>>,                \* the error field of its body, if any
   details |-> <<>>]              \* the fields its details name, if any

Init ==
  /\ env \in Envs
  /\ db = <<>>
  /\ lastID = 0
  /\ calls = [c \in Calls |-> IdleCall]
  /\ access = NoAccess
  /\ loop = IdleLoop
  /\ resolve = IdleResolve
  /\ merge = IdleMerge
  /\ crypt = IdleCrypt
  /\ store = IdleStore
  /\ http = IdleHttp

(***************************************************************************)
(* ContainerService.createContainer and the ProxmoxService.createContainer *)
(* it awaits: one action per continuation.                                 *)
(***************************************************************************)
\* the argument of this.proxmox.createContainer
ProxmoxArg(requestData, containerPassword) ==
  [hostname |-> Get(requestData, "hostname"),
   cores |-> Get(requestData, "cores"),
   memory |-> Get(requestData, "memory"),
   disk |-> Get(requestData, "disk"),
   ostemplate |-> Get(requestData, "ostemplate"),
   password |-> containerPassword,
   additionalConfig |-> AdditionalOf(requestData)]

\* as ProxmoxFail, but the cause is rethrown as it is
ProxmoxRethrow(message) == message

\* ProxmoxService.createContainer: catch, then ContainerService: catch
ProxmoxFail(message) == <<"Container", "creation", "failed:">> \o message
ServiceFail(message) == <<"Failed", "to", "create", "container:">> \o message

\* as Failed, but an invocation whose INSERT was rejected still schedules its
\* follow-up
FailedScheduled(call, message) ==
  [IdleCall EXCEPT !.pc = "failed", !.error = ServiceFail(message),
                   !.timer = IF call.pc = "insert" THEN "scheduled" ELSE "none",
                   !.proxmoxResult = call.proxmoxResult]

\* the invocation is over with an error: its locals are gone
Failed(call, message) == [IdleCall EXCEPT !.pc = "failed", !.error = ServiceFail(message)]

\* createContainer is invoked: the password is generated, the id is asked for
Begin(c, requestData, password) ==
  /\ calls[c].pc = "idle"
  /\ \A b \in Calls : b < c => calls[b].pc # "idle"
  /\ calls' = [calls EXCEPT ![c] =
       [@ EXCEPT !.pc = "nextid",
                 !.requestData = requestData,
                 !.containerPassword = Str(password),
                 !.containerUsername = Or(Get(env, "CT_DEFAULT_USERNAME"), Str("root"))]]
  /\ access' = NoAccess
  /\ UNCHANGED <<env, db, lastID, loop, resolve, merge, crypt, store, http>>

\* getNextVMID answered: the configuration is merged and posted
NextIdReply(c, response, floor) ==
  /\ calls[c].pc = "nextid"
  /\ calls' = [calls EXCEPT ![c] =
       [@ EXCEPT !.pc = "post",
                 !.posted = TRUE,
                 !.containerConfig =
                    ContainerConfig(ProxmoxArg(calls[c].requestData,
                                               calls[c].containerPassword), env,
                                    GetNextVMID(response, floor))]]
  /\ access' = NoAccess
  /\ UNCHANGED <<env, db, lastID, loop, resolve, merge, crypt, store, http>>

\* the POST answered: waitForTask starts and sends its first status request
PostReply(c, response) ==
  /\ calls[c].pc = "post"
  /\ calls' = [calls EXCEPT ![c] =
       IF HasData(response)
       THEN [@ EXCEPT !.pc = "taskPoll", !.taskId = response.data, !.polls = 1]
       ELSE IF response.ok
       THEN Failed(@, ProxmoxFail(InvalidResponse))
       ELSE Failed(@, ProxmoxFail(response.message))]
  /\ access' = NoAccess
  /\ UNCHANGED <<env, db, lastID, loop, resolve, merge, crypt, store, http>>

\* a task-status request answered
TaskReply(c, response) ==
  /\ calls[c].pc = "taskPoll"
  /\ LET step == WaitForTaskOnReply(response)
     IN  calls' = [calls EXCEPT ![c] =
           IF step.kind = "return"
           THEN [@ EXCEPT !.pc = "statusPoll", !.taskOk = TRUE, !.polls = 1,
                          !.taskExit0 = ReportsExit0(response),
                          !.polledVmid = calls[c].containerConfig.vmid]
           ELSE IF step.kind = "throw"
           THEN Failed(@, ProxmoxFail(step.message))
           ELSE [@ EXCEPT !.pc = "taskWait"]]
  /\ access' = NoAccess
  /\ UNCHANGED <<env, db, lastID, loop, resolve, merge, crypt, store, http>>

\* the wait of waitForTask is over: the loop test, answered by the clock
TaskWake(c, inTime) ==
  /\ calls[c].pc = "taskWait"
  /\ inTime => calls[c].polls < MaxPolls
  /\ calls' = [calls EXCEPT ![c] =
       IF inTime
       THEN [@ EXCEPT !.pc = "taskPoll", !.polls = @ + 1]
       ELSE Failed(@, ProxmoxFail(TaskTimeout))]
  /\ access' = NoAccess
  /\ UNCHANGED <<env, db, lastID, loop, resolve, merge, crypt, store, http>>

\* a runtime-status request answered; on "running" ProxmoxService.createContainer
\* returns and Container.create queues the INSERT
StatusReply(c, response) ==
  /\ calls[c].pc = "statusPoll"
  /\ LET step == WaitForStartOnReply(response)
     IN  calls' = [calls EXCEPT ![c] =
           IF step.kind = "return"
           THEN [@ EXCEPT !.pc = "insert", !.startOk = TRUE, !.polls = 0,
                          !.seenRunning = ReportsRunning(response),
                          !.proxmoxResult = [vmid |-> calls[c].containerConfig.vmid,
                                             hostname |-> Get(calls[c].requestData, "hostname"),
                                             taskId |-> calls[c].taskId]]
           ELSE [@ EXCEPT !.pc = "statusWait"]]
  /\ access' = NoAccess
  /\ UNCHANGED <<env, db, lastID, loop, resolve, merge, crypt, store, http>>

\* the wait of waitForContainerStart is over
StatusWake(c, inTime) ==
  /\ calls[c].pc = "statusWait"
  /\ inTime => calls[c].polls < MaxPolls
  /\ calls' = [calls EXCEPT ![c] =
       IF inTime
       THEN [@ EXCEPT !.pc = "statusPoll", !.polls = @ + 1]
       ELSE Failed(@, ProxmoxFail(StartTimeout))]
  /\ access' = NoAccess
  /\ UNCHANGED <<env, db, lastID, loop, resolve, merge, crypt, store, http>>

\* the INSERT of Container.create ran (iv: the bytes encrypt drew): on success
\* the follow-up is scheduled and the result returned
InsertDone(c, iv) ==
  /\ calls[c].pc = "insert"
  /\ LET call == calls[c]
         ct_id == Str(toString(call.proxmoxResult.vmid))
         name == Get(call.requestData, "name")
         encryptedPassword == Encrypt(call.containerPassword, iv)
         err == ConstraintError(db, ct_id, name, call.containerUsername, encryptedPassword)
     IN  IF err = <<>>
         THEN /\ db' = Append(db, NewRow(lastID + 1, ct_id, name, call.containerUsername,
                                         encryptedPassword,
                                         Get(call.requestData, "jenkins_job_id")))
              /\ lastID' = lastID + 1
              /\ calls' = [calls EXCEPT ![c] =
                   [@ EXCEPT !.pc = "returned",
                             !.timer = "scheduled",
                             !.result = [id |-> Num(lastID + 1),
                                         ct_id |-> call.proxmoxResult.vmid,
                                         name |-> name,
                                         hostname |-> Get(call.requestData, "hostname"),
                                         username |-> call.containerUsername,
                                         status |-> Str("creating")]]]
         ELSE /\ calls' = [calls EXCEPT ![c] = Failed(@, err)]
              /\ UNCHANGED <<db, lastID>>
  /\ access' = NoAccess
  /\ UNCHANGED <<env, loop, resolve, merge, crypt, store, http>>

(***************************************************************************)
(* The follow-up createContainer schedules with setTimeout.                *)
(***************************************************************************)
\* the callback runs: getContainerIP starts its grace wait
FollowUpFire(c) ==
  /\ calls[c].timer = "scheduled"
  /\ calls' = [calls EXCEPT ![c] =
       [@ EXCEPT !.timer = "grace", !.ipVmid = calls[c].proxmoxResult.vmid]]
  /\ access' = NoAccess
  /\ UNCHANGED <<env, db, lastID, loop, resolve, merge, crypt, store, http>>

\* the grace wait is over: the configuration is asked for
GraceDone(c) ==
  /\ calls[c].timer = "grace"
  /\ calls' = [calls EXCEPT ![c] = [@ EXCEPT !.timer = "config"]]
  /\ access' = NoAccess
  /\ UNCHANGED <<env, db, lastID, loop, resolve, merge, crypt, store, http>>

\* as FollowUpUpdate, but the record is addressed by the id of its row
FollowUpUpdateRowId(c, ip) ==
  /\ calls' = [calls EXCEPT ![c] =
       [@ EXCEPT !.timer = "done", !.ip = ip,
                 !.updatedCtId = Str(toString(calls[c].result.id))]]
  /\ db' = UpdateStatus(db, Str(toString(calls[c].result.id)), Str("running"), ip)

\* as FollowUpUpdate, but the status written is 'stopped'
FollowUpUpdateStopped(c, ip) ==
  /\ calls' = [calls EXCEPT ![c] =
       [@ EXCEPT !.timer = "done", !.ip = ip,
                 !.updatedCtId = Str(toString(calls[c].proxmoxResult.vmid))]]
  /\ db' = UpdateStatus(db, Str(toString(calls[c].proxmoxResult.vmid)), Str("stopped"), ip)

\* getContainerIP returned ip: the rest of the callback
FollowUpUpdate(c, ip) ==
  /\ calls' = [calls EXCEPT ![c] =
       [@ EXCEPT !.timer = "done", !.ip = ip,
                 !.updatedCtId = Str(toString(calls[c].proxmoxResult.vmid))]]
  /\ db' = UpdateStatus(db, Str(toString(calls[c].proxmoxResult.vmid)), Str("running"), ip)

\* the configuration request answered: a static address is returned, a failed
\* request gives null (outer catch), otherwise the agent is asked
ConfigReply(c, response) ==
  /\ calls[c].timer = "config"
  /\ IF ~response.ok
     THEN FollowUpUpdate(c, Null)
     ELSE IF StaticAddress(response).found
     THEN FollowUpUpdate(c, StaticAddress(response).ip)
     ELSE /\ calls' = [calls EXCEPT ![c] = [@ EXCEPT !.timer = "agent"]]
          /\ UNCHANGED db
  /\ access' = NoAccess
  /\ UNCHANGED <<env, lastID, loop, resolve, merge, crypt, store, http>>

\* the agent request answered
AgentReply(c, agentResponse) ==
  /\ calls[c].timer = "agent"
  /\ FollowUpUpdate(c, AgentAddress(agentResponse))
  /\ access' = NoAccess
  /\ UNCHANGED <<env, lastID, loop, resolve, merge, crypt, store, http>>

(***************************************************************************)
(* ContainerService.getContainerAccess.                                    *)
(***************************************************************************)
NotFound == <<"Container", "not", "found">>
NotRunning == <<"Container", "is", "not", "running">>
AccessFail(message) == <<"Failed", "to", "get", "container", "access:">> \o message

\* as GetContainerAccess, but without the test of the status
GetContainerAccessAnyStatus(table, ct_id) ==
  IF ~HasCtId(table, ct_id)
  THEN [ct_id |-> ct_id, granted |-> FALSE, access |-> EmptyObj,
        message |-> AccessFail(NotFound)]
  ELSE LET container == FindByCtId(table, ct_id)
       IN  [ct_id |-> ct_id, granted |-> TRUE,
            access |-> [ct_id |-> container.ct_id,
                        ip_address |-> container.ip_address,
                        username |-> container.username,
                        password |-> container.password],
            message |-> <<>>]

\* getContainerAccess(ct_id) on the table: what it returns or throws
GetContainerAccess(table, ct_id) ==
  IF ~HasCtId(table, ct_id)
  THEN [ct_id |-> ct_id, granted |-> FALSE, access |-> EmptyObj,
        message |-> AccessFail(NotFound)]
  ELSE LET container == FindByCtId(table, ct_id)
       IN  IF container.status # Str("running")
           THEN [ct_id |-> ct_id, granted |-> FALSE, access |-> EmptyObj,
                 message |-> AccessFail(NotRunning)]
           ELSE [ct_id |-> ct_id, granted |-> TRUE,
                 access |-> [ct_id |-> container.ct_id,
                             ip_address |-> container.ip_address,
                             username |-> container.username,
                             password |-> container.password],
                 message |-> <<>>]

\* the ids asked for
AccessIds == {Str("101"), Str("999")}

GetAccess(ct_id) ==
  /\ \E c \in Calls : calls[c].pc # "idle"
  /\ access' = GetContainerAccess(db, ct_id)
  /\ UNCHANGED <<env, db, lastID, calls, loop, resolve, merge, crypt, store, http>>

\* the values a random source may give at its n-th draw: one not drawn before,
\* or one of those drawn before (the values themselves are interchangeable)
Drawn(source, n) == {source[i] : i \in 1..(IF n < Len(source) THEN n ELSE Len(source))}

(***************************************************************************)
(* The orchestrator.                                                       *)
(***************************************************************************)
Next ==
  \/ \E c \in Calls : \E requestData \in Requests, password \in Drawn(Passwords, c) :
       Begin(c, requestData, password)
  \/ \E c \in Calls, response \in NextIdReplies, floor \in RandomFloors :
       NextIdReply(c, response, floor)
  \/ \E c \in Calls, response \in PostReplies : PostReply(c, response)
  \/ \E c \in Calls, response \in TaskReplies : TaskReply(c, response)
  \/ \E c \in Calls, inTime \in BOOLEAN : TaskWake(c, inTime)
  \/ \E c \in Calls, response \in StatusReplies : StatusReply(c, response)
  \/ \E c \in Calls, inTime \in BOOLEAN : StatusWake(c, inTime)
  \/ \E c \in Calls, iv \in Drawn(IVs, Len(db) + 1) : InsertDone(c, iv)
  \/ \E c \in Calls : FollowUpFire(c)
  \/ \E c \in Calls : GraceDone(c)
  \/ \E c \in Calls, response \in ConfigReplies : ConfigReply(c, response)
  \/ \E c \in Calls, response \in AgentReplies : AgentReply(c, response)
  \/ \E ct_id \in AccessIds : GetAccess(ct_id)

Spec == Init /\ [][Next]_vars

(***************************************************************************)
(* SpecPoll: one run of waitForTask or waitForContainerStart, with the     *)
(* time.  A request takes 0..MaxPollTime seconds, a wait takes its delay.  *)
(***************************************************************************)
LoopFns == {"waitForTask", "waitForContainerStart"}

\* maxWaitTime = 300000 / 120000
DefaultMaxWait(fn) == IF fn = "waitForTask" THEN TaskMaxWait ELSE StartMaxWait

LoopReplies(fn) ==
  IF fn = "waitForTask" THEN TaskReplies
  ELSE StatusReplies \cup {Err(EmptyObj, HttpNotFound)}

LoopOnReply(fn, response) ==
  IF fn = "waitForTask" THEN WaitForTaskOnReply(response) ELSE WaitForStartOnReply(response)

\* throw new Error(...) after the loop
LoopTimeout(fn) == IF fn = "waitForTask" THEN TaskTimeout ELSE StartTimeout

\* the function is called: const startTime = Date.now()
LoopStart(fn, maxWaitTime) ==
  /\ loop.pc = "idle"
  /\ loop' = [loop EXCEPT !.fn = fn, !.maxWaitTime = maxWaitTime, !.pc = "test"]
  /\ UNCHANGED <<env, db, lastID, calls, access, resolve, merge, crypt, store, http>>

\* the loop test: the next request is sent, or the timeout is thrown
LoopCheck ==
  /\ loop.pc = "test"
  /\ loop' = IF LoopTest(loop.elapsed, loop.maxWaitTime)
             THEN [loop EXCEPT !.pc = "request", !.polledAt = loop.elapsed,
                               !.polls = IF loop.counting /\ loop.errors = 0
                                         THEN @ + 1 ELSE 0,
                               !.prevPolledAt = IF loop.counting /\ loop.answered
                                                THEN loop.polledAt ELSE @]
             ELSE [loop EXCEPT !.pc = "threw", !.message = LoopTimeout(loop.fn)]
  /\ UNCHANGED <<env, db, lastID, calls, access, resolve, merge, crypt, store, http>>

\* the request is answered after took seconds
LoopReply(response, took) ==
  /\ loop.pc = "request"
  /\ LET step == LoopOnReply(loop.fn, response)
         now == loop.elapsed + took
         seen == [loop EXCEPT !.elapsed = now, !.repliedAt = now, !.last = response,
                              !.answered = TRUE,
                              !.polls = IF response.ok THEN @ ELSE 0,
                              !.errors = IF ~response.ok /\ @ < MaxErrors THEN @ + 1 ELSE @]
     IN  loop' = IF step.kind = "return" THEN [seen EXCEPT !.pc = "returned"]
                 ELSE IF step.kind = "throw"
                 THEN [seen EXCEPT !.pc = "threw", !.message = step.message]
                 ELSE [seen EXCEPT !.pc = "sleep", !.delay = step.delay]
  /\ UNCHANGED <<env, db, lastID, calls, access, resolve, merge, crypt, store, http>>

\* the wait is over
LoopWake ==
  /\ loop.pc = "sleep"
  /\ loop' = [loop EXCEPT !.pc = "test", !.elapsed = @ + loop.delay, !.delay = 0]
  /\ UNCHANGED <<env, db, lastID, calls, access, resolve, merge, crypt, store, http>>

NextPoll ==
  \/ \E fn \in LoopFns : \E maxWaitTime \in {DefaultMaxWait(fn), ShortWait} :
       LoopStart(fn, maxWaitTime)
  \/ LoopCheck
  \/ \E response \in LoopReplies(loop.fn), took \in {0, MaxPollTime} :
       LoopReply(response, took)
  \/ LoopWake

SpecPoll == Init /\ [][NextPoll]_vars

\* SpecTaskPolls: one run of waitForTask whose requests are counted
TaskPollsStart(maxWaitTime) ==
  /\ loop.pc = "idle"
  /\ loop' = [loop EXCEPT !.fn = "waitForTask", !.maxWaitTime = maxWaitTime,
                          !.pc = "test", !.counting = TRUE]
  /\ UNCHANGED <<env, db, lastID, calls, access, resolve, merge, crypt, store, http>>

NextTaskPolls ==
  \/ \E maxWaitTime \in {TaskMaxWait, ShortWait} : TaskPollsStart(maxWaitTime)
  \/ LoopCheck
  \/ \E response \in LoopReplies(loop.fn), took \in {0, MaxPollTime} :
       LoopReply(response, took)
  \/ LoopWake

SpecTaskPolls == Init /\ [][NextTaskPolls]_vars

\* the event loop runs every continuation that is ready: a request is answered
\* or given up by the client (timeout: 30000), a setTimeout fires
SpecPollFair == SpecPoll /\ WF_vars(NextPoll)

(***************************************************************************)
(* SpecResolve: one run of getContainerIP.                                 *)
(***************************************************************************)
\* getContainerIP is called: the grace wait, then the configuration request
ResolveStart ==
  /\ resolve.pc = "idle"
  /\ resolve' = [resolve EXCEPT !.pc = "config"]
  /\ UNCHANGED <<env, db, lastID, calls, access, loop, merge, crypt, store, http>>

\* the configuration request answered
ResolveConfig(response) ==
  /\ resolve.pc = "config"
  /\ LET step == ResolveOnConfig(response)
         seen == [resolve EXCEPT !.config = response]
     IN  resolve' =
           IF step.kind = "return" THEN [seen EXCEPT !.pc = "returned", !.ip = step.ip]
           ELSE IF step.kind = "throw"
           THEN [seen EXCEPT !.pc = "threw", !.message = step.message]
           ELSE [seen EXCEPT !.pc = "agent", !.asked = TRUE]
  /\ UNCHANGED <<env, db, lastID, calls, access, loop, merge, crypt, store, http>>

\* the agent request answered
ResolveAgent(agentResponse) ==
  /\ resolve.pc = "agent"
  /\ resolve' = [resolve EXCEPT !.pc = "returned", !.agent = agentResponse,
                                !.ip = AgentAddress(agentResponse)]
  /\ UNCHANGED <<env, db, lastID, calls, access, loop, merge, crypt, store, http>>

NextResolve ==
  \/ ResolveStart
  \/ \E response \in ResolveConfigReplies : ResolveConfig(response)
  \/ \E agentResponse \in ResolveAgentReplies : ResolveAgent(agentResponse)

SpecResolve == Init /\ [][NextResolve]_vars

(***************************************************************************)
(* SpecMerge: the configuration ProxmoxService.createContainer posts, for  *)
(* a caller of createContainer and of createContainerWithFullConfig.       *)
(***************************************************************************)
InitMerge ==
  /\ env \in MergeEnvs
  /\ db = <<>>
  /\ lastID = 0
  /\ calls = [c \in Calls |-> IdleCall]
  /\ access = NoAccess
  /\ loop = IdleLoop
  /\ resolve = IdleResolve
  /\ merge = IdleMerge
  /\ crypt = IdleCrypt
  /\ store = IdleStore
  /\ http = IdleHttp

\* createContainer(config), the id answered being 101
MergeCreate(config) ==
  /\ merge.pc = "idle"
  /\ merge' = [IdleMerge EXCEPT
                 !.pc = "merged", !.fn = "createContainer", !.config = config,
                 !.containerConfig =
                   ContainerConfig(config, env, Or(Get(config, "vmid"), Num(101)))]
  /\ UNCHANGED <<env, db, lastID, calls, access, loop, resolve, crypt, store, http>>

\* createContainerWithFullConfig(containerData)
MergeFull(containerData) ==
  /\ merge.pc = "idle"
  /\ merge' = [IdleMerge EXCEPT
                 !.pc = "merged", !.fn = "createContainerWithFullConfig",
                 !.config = containerData,
                 !.containerConfig =
                   ContainerConfig(FullConfig(containerData), env,
                                   Or(Get(FullConfig(containerData), "vmid"), Num(101)))]
  /\ UNCHANGED <<env, db, lastID, calls, access, loop, resolve, crypt, store, http>>

NextMerge ==
  \/ \E config \in MergeConfigs : MergeCreate(config)
  \/ \E containerData \in MergeConfigs : MergeFull(containerData)

SpecMerge == InitMerge /\ [][NextMerge]_vars

(***************************************************************************)
(* SpecNextId: the id ProxmoxService.createContainer posts:                *)
(* config.vmid || await this.getNextVMID().                                *)
(***************************************************************************)
\* createContainer(config) with an id in the configuration: no request
IdGiven(config) ==
  /\ merge.pc = "idle"
  /\ ~Falsy(Get(config, "vmid"))
  /\ merge' = [IdleMerge EXCEPT
                 !.pc = "merged", !.fn = "createContainer", !.config = config,
                 !.containerConfig = ContainerConfig(config, env, Get(config, "vmid"))]
  /\ UNCHANGED <<env, db, lastID, calls, access, loop, resolve, crypt, store, http>>

\* createContainer(config) without one: getNextVMID asks the cluster and
\* returns the id answered
IdAnswered(config, response) ==
  /\ merge.pc = "idle"
  /\ Falsy(Get(config, "vmid"))
  /\ HasData(response)
  /\ LET nextId == GetNextVMID(response, 0)
     IN  merge' = [IdleMerge EXCEPT
                     !.pc = "merged", !.fn = "createContainer", !.config = config,
                     !.asked = TRUE, !.response = response, !.nextId = nextId,
                     !.containerConfig = ContainerConfig(config, env, nextId)]
  /\ UNCHANGED <<env, db, lastID, calls, access, loop, resolve, crypt, store, http>>

\* createContainer(config) without one, the cluster giving no id:
\* getNextVMID draws one
IdDrawn(config, response, random) ==
  /\ merge.pc = "idle"
  /\ Falsy(Get(config, "vmid"))
  /\ ~HasData(response)
  /\ LET nextId == GetNextVMID(response, RandomFloor(random))
     IN  merge' = [IdleMerge EXCEPT
                     !.pc = "merged", !.fn = "createContainer", !.config = config,
                     !.asked = TRUE, !.response = response, !.random = random,
                     !.nextId = nextId,
                     !.containerConfig = ContainerConfig(config, env, nextId)]
  /\ UNCHANGED <<env, db, lastID, calls, access, loop, resolve, crypt, store, http>>

NextNextId ==
  \/ \E config \in IdConfigs : IdGiven(config)
  \/ \E config \in IdConfigs, response \in NextIdAnswers : IdAnswered(config, response)
  \/ \E config \in IdConfigs, response \in NextIdAnswers, random \in RandomDraws :
       IdDrawn(config, response, random)

SpecNextId == InitMerge /\ [][NextNextId]_vars

(***************************************************************************)
(* SpecCrypt: CryptoUtils.encrypt / decrypt, and Container.create /        *)
(* findByCtId which call them.                                             *)
(***************************************************************************)
\* encrypt(text), iv the bytes it draws
CryptEncrypt(text, iv) ==
  /\ crypt.pc = "idle"
  /\ crypt' = [crypt EXCEPT !.pc = "encrypted", !.text = text,
                            !.encrypted = Encrypt(text, iv)]
  /\ UNCHANGED <<env, db, lastID, calls, access, loop, resolve, merge, store, http>>

\* a second encrypt(text) of the same text, iv the bytes it draws
CryptEncryptAgain(iv) ==
  /\ crypt.pc = "encrypted"
  /\ crypt' = [crypt EXCEPT !.pc = "again", !.again = Encrypt(crypt.text, iv)]
  /\ UNCHANGED <<env, db, lastID, calls, access, loop, resolve, merge, store, http>>

\* decrypt of what encrypt returned
CryptDecrypt ==
  /\ crypt.pc = "encrypted"
  /\ LET decrypted == Decrypt(crypt.encrypted)
     IN  crypt' = [crypt EXCEPT !.pc = IF IsThrown(decrypted) THEN "threw" ELSE "decrypted",
                               !.decrypted = decrypted]
  /\ UNCHANGED <<env, db, lastID, calls, access, loop, resolve, merge, store, http>>

\* the IV texts an envelope is given in place of its own: those encrypt
\* draws, the empty one, one that is not hex
IvTexts == {<<"hex", IVs[1]>>, <<"hex", IVs[2]>>, <<"hex", "">>, <<"text", "garbage">>}

\* WithIV(envelope, ivText): ivText + ':' + the cipher part of the envelope
WithIV(envelope, ivText) == <<"envelope", ivText, envelope[3]>>

\* decrypt of what encrypt returned, and of the same cipher text under ivText
CryptDecryptBoth(ivText) ==
  /\ crypt.pc = "encrypted"
  /\ crypt.encrypted # Null
  /\ LET other == WithIV(crypt.encrypted, ivText)
     IN  crypt' = [crypt EXCEPT !.pc = "both",
                               !.decrypted = Decrypt(crypt.encrypted),
                               !.other = other,
                               !.decryptedOther = Decrypt(other)]
  /\ UNCHANGED <<env, db, lastID, calls, access, loop, resolve, merge, store, http>>

\* decrypt(encryptedText) of a text from elsewhere
DecryptGiven(encryptedText) ==
  /\ crypt.pc = "idle"
  /\ LET decrypted == Decrypt(encryptedText)
     IN  crypt' = [crypt EXCEPT !.pc = IF IsThrown(decrypted) THEN "threw" ELSE "decrypted",
                               !.encrypted = encryptedText,
                               !.decrypted = decrypted]
  /\ UNCHANGED <<env, db, lastID, calls, access, loop, resolve, merge, store, http>>

\* Container.create({ct_id, name, username, password}): a rejected INSERT
\* leaves the table as it is
StoreCreate(ct_id, password, iv) ==
  /\ Len(db) < MaxRows
  /\ LET encryptedPassword == Encrypt(password, iv)
         err == ConstraintError(db, ct_id, Str("ci-build"), Str("root"), encryptedPassword)
     IN  /\ err = <<>>
         /\ db' = Append(db, NewRow(lastID + 1, ct_id, Str("ci-build"), Str("root"),
                                    encryptedPassword, Undefined))
         /\ lastID' = lastID + 1
         /\ crypt' = [crypt EXCEPT !.created = Append(@, password)]
  /\ UNCHANGED <<env, calls, access, loop, resolve, merge, store, http>>

\* Container.findByCtId(ct_id), a row being there
StoreFind(ct_id) ==
  /\ HasCtId(db, ct_id)
  /\ crypt' = [crypt EXCEPT !.found = FindByCtId(db, ct_id)]
  /\ UNCHANGED <<env, db, lastID, calls, access, loop, resolve, merge, store, http>>

NextCrypt ==
  \/ \E text \in CryptTexts, iv \in Drawn(IVs, Len(IVs)) : CryptEncrypt(text, iv)
  \/ \E iv \in Drawn(IVs, Len(IVs)) : CryptEncryptAgain(iv)
  \/ CryptDecrypt
  \/ \E ivText \in IvTexts : CryptDecryptBoth(ivText)
  \/ \E encryptedText \in CryptEnvelopes : DecryptGiven(encryptedText)
  \/ \E ct_id \in CryptIds, password \in CryptTexts, iv \in Drawn(IVs, Len(IVs)) :
       StoreCreate(ct_id, password, iv)
  \/ \E ct_id \in CryptIds : StoreFind(ct_id)

SpecCrypt == Init /\ [][NextCrypt]_vars

(***************************************************************************)
(* SpecPassword: CryptoUtils.generatePassword applied to a length and to   *)
(* the bytes the random source gives.                                      *)
(***************************************************************************)
\* generatePassword(length), pattern what the random source gives
Generate(length, pattern) ==
  /\ crypt.pc = "idle"
  /\ LET bytes == RandomBytes(LengthOf(length), pattern)
     IN  crypt' = [crypt EXCEPT !.pc = "generated", !.length = length,
                               !.bytes = bytes,
                               !.generated = GeneratePassword(length, bytes)]
  /\ UNCHANGED <<env, db, lastID, calls, access, loop, resolve, merge, store, http>>

NextPassword ==
  \E length \in Lengths, pattern \in BytePatterns : Generate(length, pattern)

SpecPassword == Init /\ [][NextPassword]_vars

(***************************************************************************)
(* The webhook layer: index.js, routes/webhook.js, middleware/auth.js,     *)
(* middleware/validation.js, controllers/webhookController.js and          *)
(* middleware/errorHandler.js.  req.body is what express.json() parsed.    *)
(***************************************************************************)
HealthRoutes == {"GET /health", "GET /webhook/health"}
CreateRoute == "POST /webhook/create-container"
AccessRoute == "POST /webhook/get-access"
ListRoute == "GET /webhook/containers"
\* the routes registered after router.use(webhookAuth)
ProtectedRoutes == {CreateRoute, AccessRoute, ListRoute}
Routes == HealthRoutes \cup ProtectedRoutes

\* process.env.WEBHOOK_SECRET
WebhookSecrets == {Undefined, Str(""), Str("s3cret")}

\* req.headers
HeaderSets ==
  {EmptyObj} \cup {[k \in {"x-webhook-secret"} |-> v] : v \in {Str("s3cret"), Str("wrong")}}

\* req.body
Bodies ==
  { EmptyObj,
    [secret |-> Str("s3cret")],
    [ct_id |-> Str("101")],
    [ct_id |-> Str("999")],
    [ct_id |-> Str("101"), secret |-> Str("s3cret")],
    [ct_id |-> Str("101"), secret |-> Str("wrong")],
    [name |-> Str("ci-build"), hostname |-> Str("ci-01")],
    [name |-> Str("ci-build"), hostname |-> Str("ci-01"), secret |-> Str("s3cret")] }

AuthNotConfigured == <<"Webhook", "authentication", "not", "configured">>
SecretRequired == <<"Webhook", "secret", "required">>
InvalidSecret == <<"Invalid", "webhook", "secret">>
ValidationError == <<"Validation", "error">>
InternalServerError == <<"Internal", "server", "error">>

\* res.status(status).json({success: false, error})
Response(status, error) == [status |-> status, error |-> error]
\* next(): the request goes on to the route
PassOn == Response(0, <<>>)

\* req.headers['x-webhook-secret'] || req.body.secret
ProvidedSecret(headers, body) == Or(Get(headers, "x-webhook-secret"), Get(body, "secret"))

\* as WebhookAuth, but without the comparison of the two secrets
WebhookAuthAnySecret(headers, body, expectedSecret) ==
  IF Falsy(expectedSecret) THEN Response(500, AuthNotConfigured)
  ELSE IF Falsy(ProvidedSecret(headers, body)) THEN Response(401, SecretRequired)
  ELSE PassOn

\* webhookAuth(req, res, next)
WebhookAuth(headers, body, expectedSecret) ==
  LET providedSecret == ProvidedSecret(headers, body)
  IN  IF Falsy(expectedSecret) THEN Response(500, AuthNotConfigured)
      ELSE IF Falsy(providedSecret) THEN Response(401, SecretRequired)
      ELSE IF providedSecret # expectedSecret THEN Response(401, InvalidSecret)
      ELSE PassOn

\* new Error(message), and the error of schema.validate marked isJoi
ErrorOf(message) == [isJoi |-> FALSE, status |-> Undefined, message |-> message]
JoiError(details) ==
  [isJoi |-> TRUE, status |-> Undefined, message |-> ValidationError, details |-> details]

\* as ErrorHandler, but without the test of err.isJoi
ErrorHandlerNoJoi(err, production) ==
  IF ~Falsy(err.status) THEN Response(err.status[2], err.message)
  ELSE Response(500, IF production THEN InternalServerError ELSE err.message)

\* errorHandler(err, req, res, next)
ErrorHandler(err, production) ==
  IF err.isJoi
  THEN [status |-> 400, error |-> ValidationError, details |-> err.details]
  ELSE IF ~Falsy(err.status) THEN Response(err.status[2], err.message)
  ELSE Response(500, IF production THEN InternalServerError ELSE err.message)

\* getAccessSchema.validate(req.body) gives no error: ct_id a string that is
\* not empty, and no other key
GetAccessValid(body) ==
  /\ DOMAIN body = {"ct_id"}
  /\ body.ct_id[1] = "string"
  /\ body.ct_id # Str("")

\* error.details of getAccessSchema.validate: the first field at fault, the
\* keys of the schema coming before the keys it does not name
GetAccessDetails(body) ==
  IF "ct_id" \notin DOMAIN body \/ body.ct_id[1] # "string" \/ body.ct_id = Str("")
  THEN <<"ct_id">>
  ELSE <<CHOOSE k \in DOMAIN body \ {"ct_id"} : TRUE>>

\* the keys of createContainerSchema
CreateKeys ==
  {"name", "hostname", "cores", "memory", "disk", "ostemplate", "jenkins_job_id",
   "additionalConfig"}

\* createContainerSchema.validate(req.body) gives no error: name and
\* hostname, and no key the schema does not name
CreateValid(body) ==
  /\ {"name", "hostname"} \subseteq DOMAIN body
  /\ DOMAIN body \subseteq CreateKeys

\* error.details of createContainerSchema.validate: the first field at fault
CreateDetails(body) ==
  IF "name" \notin DOMAIN body THEN <<"name">>
  ELSE IF "hostname" \notin DOMAIN body THEN <<"hostname">>
  ELSE <<CHOOSE k \in DOMAIN body \ CreateKeys : TRUE>>

\* WebhookController.getContainerAccess on the table: the response
AccessResponse(table, body, production) ==
  IF ~GetAccessValid(body) THEN ErrorHandler(JoiError(GetAccessDetails(body)), production)
  ELSE LET result == GetContainerAccess(table, body.ct_id)
       IN  IF result.granted THEN Response(200, <<>>)
           ELSE ErrorHandler(ErrorOf(result.message), production)

(***************************************************************************)
(* SpecHttp: requests to the server.  A create-container request runs the  *)
(* service to its end (the record inserted, or the creation failed); the   *)
(* follow-up of a creation is an event of its own.                         *)
(***************************************************************************)
\* the server starts with its environment
HttpStart(expectedSecret, production) ==
  /\ http.pc = "off"
  /\ http' = [IdleHttp EXCEPT !.pc = "up", !.expectedSecret = expectedSecret,
                              !.production = production]
  /\ UNCHANGED <<env, db, lastID, calls, access, loop, resolve, merge, crypt, store>>

\* the answer to a request, and what it ran
Answered(route, headers, body, handler, service, response) ==
  [http EXCEPT !.pc = "answered", !.route = route, !.headers = headers,
               !.body = body, !.handler = handler, !.service = service,
               !.status = response.status, !.error = response.error,
               !.details = IF "details" \in DOMAIN response THEN response.details
                           ELSE <<>>]

\* a request is served; created: the creation it asks for succeeds, ct_id
\* the id the hypervisor gives
HttpRequest(route, headers, body, created, ct_id) ==
  /\ http.pc # "off"
  /\ LET auth == IF route \in ProtectedRoutes
                 THEN WebhookAuth(headers, body, http.expectedSecret)
                 ELSE PassOn
         encryptedPassword == Encrypt(Str(Passwords[1]), IVs[1])
         inserts == /\ route = CreateRoute
                    /\ auth = PassOn
                    /\ CreateValid(body)
                    /\ created
     IN  /\ inserts =>
              /\ Len(db) < MaxRows
              /\ ConstraintError(db, ct_id, body.name, Str("root"), encryptedPassword) = <<>>
         /\ db' = IF inserts
                  THEN Append(db, TimedRow(NewRow(lastID + 1, ct_id, body.name, Str("root"),
                                                  encryptedPassword,
                                                  Get(body, "jenkins_job_id")),
                                           store.now))
                  ELSE db
         /\ lastID' = IF inserts THEN lastID + 1 ELSE lastID
         /\ http' =
              IF auth # PassOn
              THEN Answered(route, headers, body, FALSE, FALSE, auth)
              ELSE IF route \in HealthRoutes
              THEN Answered(route, headers, body, route = "GET /webhook/health", FALSE,
                            Response(200, <<>>))
              ELSE IF route = AccessRoute
              THEN Answered(route, headers, body, TRUE, GetAccessValid(body),
                            AccessResponse(db, body, http.production))
              ELSE IF route = ListRoute
              THEN Answered(route, headers, body, TRUE, TRUE, Response(200, <<>>))
              ELSE IF ~CreateValid(body)
              THEN Answered(route, headers, body, TRUE, FALSE,
                            ErrorHandler(JoiError(CreateDetails(body)), http.production))
              ELSE IF created
              THEN Answered(route, headers, body, TRUE, TRUE, Response(201, <<>>))
              ELSE Answered(route, headers, body, TRUE, TRUE,
                            ErrorHandler(ErrorOf(ServiceFail(ProxmoxFail(NetworkError))),
                                         http.production))
  /\ UNCHANGED <<env, calls, access, loop, resolve, merge, crypt, store>>

\* the follow-up of a creation marks its record running
HttpFollowUp(ct_id, ip_address) ==
  /\ http.pc # "off"
  /\ \E i \in DOMAIN db : db[i].ct_id = ct_id /\ db[i].status = Str("creating")
  /\ db' = UpdateStatusAt(db, ct_id, Str("running"), ip_address, store.now)
  /\ http' = [IdleHttp EXCEPT !.pc = "up", !.expectedSecret = http.expectedSecret,
                              !.production = http.production]
  /\ UNCHANGED <<env, lastID, calls, access, loop, resolve, merge, crypt, store>>

NextHttp ==
  \/ \E expectedSecret \in WebhookSecrets, production \in BOOLEAN :
       HttpStart(expectedSecret, production)
  \/ \E route \in Routes, headers \in HeaderSets, body \in Bodies,
        created \in BOOLEAN, ct_id \in CryptIds :
       HttpRequest(route, headers, body, created, ct_id)
  \/ \E ct_id \in CryptIds, ip_address \in {Null, Str("10.0.0.5")} :
       HttpFollowUp(ct_id, ip_address)

SpecHttp == Init /\ [][NextHttp]_vars

(***************************************************************************)
(* SpecStore: Container.create, updateStatus and getAll on the table with  *)
(* its time columns; CURRENT_TIMESTAMP counts seconds.                     *)
(***************************************************************************)
\* a second passes
StoreTick ==
  /\ store.now < MaxTime
  /\ store' = [store EXCEPT !.now = @ + 1]
  /\ UNCHANGED <<env, db, lastID, calls, access, loop, resolve, merge, crypt, http>>

\* Container.create({ct_id, name, username, password}), the INSERT accepted
StoreInsert(ct_id) ==
  /\ Len(db) < MaxRows
  /\ LET encryptedPassword == Encrypt(Str(Passwords[1]), IVs[1])
         err == ConstraintError(db, ct_id, Str("ci-build"), Str("root"), encryptedPassword)
     IN  /\ err = <<>>
         /\ db' = Append(db, TimedRow(NewRow(lastID + 1, ct_id, Str("ci-build"), Str("root"),
                                             encryptedPassword, Undefined),
                                      store.now))
         /\ lastID' = lastID + 1
  /\ store' = [IdleStore EXCEPT !.now = store.now, !.op = "create",
                                !.lastWrite = Append(store.lastWrite, store.now)]
  /\ UNCHANGED <<env, calls, access, loop, resolve, merge, crypt, http>>

\* Container.updateStatus(ct_id, status, ip_address)
StoreUpdate(ct_id, status, ip_address) ==
  /\ db # <<>>
  /\ db' = UpdateStatusAt(db, ct_id, status, ip_address, store.now)
  /\ store' = [IdleStore EXCEPT !.now = store.now, !.op = "updateStatus",
                                !.ct_id = ct_id, !.status = status,
                                !.ip_address = ip_address,
                                !.at = store.now,
                                !.before = db,
                                !.changed = Changes(db, ct_id) > 0,
                                !.lastWrite =
                                   [i \in DOMAIN db |->
                                      IF db[i].ct_id = ct_id THEN store.now
                                      ELSE store.lastWrite[i]]]
  /\ UNCHANGED <<env, lastID, calls, access, loop, resolve, merge, crypt, http>>

\* ContainerService.listContainers over Container.getAll, order the order
\* the SELECT gives the rows in
StoreGetAll(order) ==
  /\ db # <<>>
  /\ LET containers == GetAll(db, order)
     IN  store' = [IdleStore EXCEPT !.now = store.now, !.op = "getAll",
                                   !.lastWrite = store.lastWrite,
                                   !.containers = containers,
                                   !.listed = ListContainers(containers)]
  /\ UNCHANGED <<env, db, lastID, calls, access, loop, resolve, merge, crypt, http>>

NextStore ==
  \/ StoreTick
  \/ \E ct_id \in CryptIds : StoreInsert(ct_id)
  \/ \E ct_id \in StoreIds, status \in StoreStatuses, ip_address \in StoreAddresses :
       StoreUpdate(ct_id, status, ip_address)
  \/ \E order \in CreatedAtDesc(db) : StoreGetAll(order)

SpecStore == Init /\ [][NextStore]_vars

(***************************************************************************)
(* Properties of the orchestrator (Spec).                                  *)
(***************************************************************************)
\* the externalId of call c, once ProxmoxService.createContainer returned
CtIdOf(c) == Str(toString(calls[c].proxmoxResult.vmid))

\* the record with the externalId of call c
RowOf(c) == db[CHOOSE i \in DOMAIN db : db[i].ct_id = CtIdOf(c)]

Returned == {c \in Calls : calls[c].pc = "returned"}

\* C1: a record is inserted only by a call whose creation task was reported
\* stopped with exit "0" and whose resource was reported running; a call that
\* fails adds no record: there are exactly as many records as calls that
\* returned, and each returned call has its record.
C1_InsertOnlyAfterSuccess ==
  /\ Len(db) = Cardinality(Returned)
  /\ \A c \in Calls :
       calls[c].pc \in {"insert", "returned"} =>
         calls[c].posted /\ calls[c].taskExit0 /\ calls[c].seenRunning
  /\ \A c \in Returned :
       /\ \E i \in DOMAIN db : db[i].ct_id = CtIdOf(c)
       /\ calls[c].result.id = Num(RowOf(c).id)

C1_Witness ==
  \E c, d \in Calls :
    /\ calls[c].pc = "returned"
    /\ calls[d].pc = "failed"
    /\ calls[d].error = ServiceFail(ProxmoxFail(StartTimeout))
    /\ Len(db) = 1

\* C2: after a follow-up whose getContainerIP returned null, the record of the
\* call still has status creating and no address.
C2_NullResultKeepsCreating ==
  \A c \in Calls :
    (calls[c].timer = "done" /\ calls[c].ip = Null) =>
      (RowOf(c).status = Str("creating") /\ RowOf(c).ip_address = Null)

\* C3 as stated: after a follow-up whose getContainerIP returned a non-null
\* address, the record of the call is running with that address.
C3_NonNullAddressStored ==
  \A c \in Calls :
    (calls[c].timer = "done" /\ calls[c].ip # Null) =>
      (RowOf(c).status = Str("running") /\ RowOf(c).ip_address = calls[c].ip)

\* C3 amended: after a follow-up whose getContainerIP returned a non-null,
\* non-empty address, the record of the call is running with that address;
\* and a step that completes a follow-up changes no other record.
C3_AddressStored ==
  /\ [](\A c \in Calls :
          (calls[c].timer = "done" /\ calls[c].ip \notin {Null, Str("")}) =>
            (RowOf(c).status = Str("running") /\ RowOf(c).ip_address = calls[c].ip))
  /\ [][\A c \in Calls :
          (calls[c].timer # "done" /\ calls'[c].timer = "done") =>
            /\ Len(db') = Len(db)
            /\ \A i \in DOMAIN db : db[i].ct_id # CtIdOf(c) => db'[i] = db[i]]_vars

C3_Witness ==
  \E c, d \in Calls :
    /\ c # d
    /\ calls[c].timer = "done" /\ calls[c].ip = Str("10.0.0.5")
    /\ calls[d].pc = "returned" /\ calls[d].timer # "done"
    /\ RowOf(d).status = Str("creating")

\* C4: the answer of getContainerAccess: granted exactly when a record with
\* the id exists and is running; not found without a record; not running, and
\* no credential field, for a record in any other status.
C4_AccessIffRunning ==
  access.ct_id # Undefined =>
    LET exists == \E i \in DOMAIN db : db[i].ct_id = access.ct_id
        row == db[CHOOSE i \in DOMAIN db : db[i].ct_id = access.ct_id]
    IN  /\ access.granted <=> (exists /\ row.status = Str("running"))
        /\ ~exists => access.message = AccessFail(NotFound)
        /\ (exists /\ row.status # Str("running")) =>
             access.message = AccessFail(NotRunning)
        /\ ~access.granted => access.access = EmptyObj
        /\ access.granted =>
             /\ DOMAIN access.access = {"ct_id", "ip_address", "username", "password"}
             /\ access.access.ct_id = access.ct_id
             /\ access.message = <<>>

C4_Witness ==
  /\ access.granted
  /\ \E c \in Calls : calls[c].pc = "returned" /\ calls[c].timer # "done"

\* C5: the password in the creation request sent to the hypervisor is the
\* password generated in that call.
C5_SubmittedPasswordIsGenerated ==
  \A c \in Calls :
    calls[c].posted => calls[c].containerConfig.password = calls[c].containerPassword

\* the causes ProxmoxService.createContainer can fail with
CreationCauses ==
  {InvalidResponse, TaskTimeout, StartTimeout, TaskFailed(Str("1"))} \cup AxiosErrors

\* C10: submit, waitForTask, waitForContainerStart, return, in this order: a
\* task-status request is sent only with the task reference of an answered
\* submission, a runtime-status request only after the task was reported
\* stopped with exit "0", {vmid, hostname, taskId} is returned only after
\* both waits succeeded; a failed call returns nothing and throws the cause
\* wrapped as a creation failure.
C10_ProtocolOrder ==
  \A c \in Calls :
    LET call == calls[c]
    IN  /\ call.pc \in {"taskPoll", "taskWait"} =>
             call.posted /\ call.taskId # Undefined /\ ~call.taskOk
        /\ call.pc \in {"statusPoll", "statusWait"} =>
             call.taskId # Undefined /\ call.taskOk /\ call.taskExit0 /\ ~call.startOk
        /\ call.proxmoxResult # EmptyObj =>
             /\ call.taskOk /\ call.startOk /\ call.taskExit0 /\ call.seenRunning
             /\ call.proxmoxResult = [vmid |-> call.containerConfig.vmid,
                                      hostname |-> call.containerConfig.hostname,
                                      taskId |-> call.taskId]
        /\ call.pc = "failed" =>
             /\ call.proxmoxResult = EmptyObj /\ call.result = EmptyObj
             /\ \/ call.error = ServiceFail(UniqueViolation)
                \/ \E cause \in CreationCauses :
                     call.error = ServiceFail(<<"Container", "creation", "failed:">> \o cause)

C10_Witness ==
  \E c, d \in Calls :
    /\ calls[c].proxmoxResult # EmptyObj
    /\ calls[d].pc = "failed"
    /\ calls[d].error =
         ServiceFail(<<"Container", "creation", "failed:">> \o TaskFailed(Str("1")))

\* C12: no two records have the same ct_id, whatever the interleaving of the
\* calls and whichever ids getNextVMID gave them (the same answer of
\* /cluster/nextid to both, or the same random id).
C12_UniqueExternalId ==
  \A i, j \in DOMAIN db : db[i].ct_id = db[j].ct_id => i = j

C12_Witness ==
  \E c, d \in Calls :
    /\ calls[c].pc = "returned" /\ calls[c].result.ct_id = Num(1000)
    /\ calls[d].pc = "failed" /\ calls[d].error = ServiceFail(UniqueViolation)
    /\ Len(db) = 1

\* C13: the step at which createContainer returns is the step that inserted
\* the record: it returns status creating, the record is creating without an
\* address, the follow-up is scheduled and has not started.  The follow-up
\* exists only for a call that returned, and once scheduled it can always
\* run: nothing of the call or of its caller is among its conditions.
C13_ReturnsBeforeFollowUp ==
  /\ [](\A c \in Calls :
          /\ calls[c].timer # "none" => calls[c].pc = "returned"
          /\ calls[c].timer = "scheduled" =>
               /\ ENABLED FollowUpFire(c)
               /\ RowOf(c).status = Str("creating") /\ RowOf(c).ip_address = Null)
  /\ [][\A c \in Calls :
          (calls[c].pc # "returned" /\ calls'[c].pc = "returned") =>
            /\ calls[c].pc = "insert"
            /\ Len(db') = Len(db) + 1
            /\ db'[Len(db')].ct_id = CtIdOf(c)
            /\ db'[Len(db')].status = Str("creating")
            /\ db'[Len(db')].ip_address = Null
            /\ calls'[c].result.status = Str("creating")
            /\ calls'[c].timer = "scheduled"]_vars

C13_Witness ==
  \E c, d \in Calls :
    /\ calls[c].pc = "returned" /\ calls[c].timer = "scheduled"
    /\ calls[d].pc = "returned" /\ calls[d].timer = "done"
    /\ RowOf(d).status = Str("running")

\* the status changes the lifecycle allows
AllowedEdges ==
  { <<Str("creating"), Str("running")>>, <<Str("creating"), Str("error")>>,
    <<Str("running"), Str("stopped")>> }

\* C14: the status of every record is creating, running, stopped or error; a
\* record is creating when it is inserted; no record is removed, and a step
\* that changes the status of a record follows an allowed edge.
C14_StatusEdges ==
  /\ [](\A i \in DOMAIN db :
          db[i].status \in {Str("creating"), Str("running"), Str("stopped"), Str("error")})
  /\ [][/\ Len(db') >= Len(db)
         /\ \A i \in DOMAIN db' :
              IF i \in DOMAIN db
              THEN \/ db'[i].status = db[i].status
                   \/ <<db[i].status, db'[i].status>> \in AllowedEdges
              ELSE db'[i].status = Str("creating")]_vars

C14_Witness ==
  /\ Len(db) = 2
  /\ db[1].status = Str("creating")
  /\ db[2].status = Str("running")

\* a continuation of call c runs
CallStep(c) ==
  \/ \E response \in NextIdReplies, floor \in RandomFloors : NextIdReply(c, response, floor)
  \/ \E response \in PostReplies : PostReply(c, response)
  \/ \E response \in TaskReplies : TaskReply(c, response)
  \/ \E inTime \in BOOLEAN : TaskWake(c, inTime)
  \/ \E response \in StatusReplies : StatusReply(c, response)
  \/ \E inTime \in BOOLEAN : StatusWake(c, inTime)
  \/ \E iv \in Drawn(IVs, Len(db) + 1) : InsertDone(c, iv)

InFlight == {"nextid", "post", "taskPoll", "taskWait", "statusPoll", "statusWait", "insert"}

\* C15: calls do not block or influence each other.  A call in flight can
\* always take its next step, wherever the other calls stand (in a wait of a
\* polling loop included).  A step of a call changes no other call and no
\* record of another id.  The INSERT of a call whose id no record has
\* succeeds and persists the values of that call (the row id apart, which the
\* table assigns in insertion order); a call fails with a uniqueness error
\* only when a record with its id exists.
C15_CallsIndependent ==
  /\ [](\A c \in Calls : calls[c].pc \in InFlight => ENABLED CallStep(c))
  /\ [][\A c \in Calls :
          calls'[c] # calls[c] =>
            /\ \A d \in Calls \ {c} : calls'[d] = calls[d]
            /\ \A i \in DOMAIN db :
                 /\ i \in DOMAIN db'
                 /\ (calls[c].proxmoxResult = EmptyObj \/ db[i].ct_id # CtIdOf(c)) =>
                      db'[i] = db[i]
            /\ (calls[c].pc = "insert" /\ ~HasCtId(db, CtIdOf(c))) =>
                 /\ calls'[c].pc = "returned"
                 /\ Len(db') = Len(db) + 1
                 /\ LET row == db'[Len(db')]
                    IN  /\ row.ct_id = CtIdOf(c)
                        /\ row.name = calls[c].requestData.name
                        /\ row.username = calls[c].containerUsername
                        /\ Decrypt(row.password) = calls[c].containerPassword
                        /\ row.status = Str("creating")
                        /\ row.ip_address = Null
            /\ (calls[c].pc = "insert" /\ calls'[c].pc = "failed") =>
                 /\ HasCtId(db, CtIdOf(c))
                 /\ calls'[c].error = ServiceFail(UniqueViolation)
            /\ (calls[c].pc # "insert" /\ calls'[c].pc = "failed") =>
                 \E cause \in CreationCauses :
                   calls'[c].error = ServiceFail(ProxmoxFail(cause))]_vars

C15_Witness ==
  \E c, d \in Calls :
    /\ c < d
    /\ calls[c].pc = "statusWait"
    /\ calls[d].pc = "returned" /\ calls[d].timer = "done"
    /\ calls[c].containerConfig.vmid # calls[d].containerConfig.vmid

(***************************************************************************)
(* Properties of the polling loops (SpecPoll).                             *)
(***************************************************************************)
\* the latest answer has been handled (no newer request is out)
Handled == loop.answered /\ loop.pc # "request"

\* the loop test decides as the clock says
LoopTestDecides ==
  loop.pc = "test" =>
    IF loop.elapsed < loop.maxWaitTime
    THEN loop'.pc = "request" /\ loop'.polledAt = loop.elapsed
    ELSE loop'.pc = "threw" /\ loop'.elapsed = loop.elapsed

\* C6: waitForTask returns true when an answer to a request sent before the
\* deadline reports stopped with exit "0"; when an answer reports stopped
\* with another exit code it throws the task failure at once: no wait, no
\* further request, whatever time is left.
C6_TaskTerminalAnswers ==
  loop.fn = "waitForTask" =>
    /\ loop.pc = "returned" =>
         /\ ReportsExit0(loop.last)
         /\ loop.polledAt < loop.maxWaitTime
         /\ loop.elapsed = loop.repliedAt
    /\ (loop.answered /\ ReportsExit0(loop.last)) => loop.pc = "returned"
    /\ (loop.answered /\ ReportsFailure(loop.last)) =>
         /\ loop.pc = "threw"
         /\ loop.message = TaskFailed(loop.last.data.exitstatus)
         /\ loop.elapsed = loop.repliedAt
         /\ loop.delay = 0

C6_Witness ==
  /\ loop.fn = "waitForTask" /\ loop.maxWaitTime = TaskMaxWait
  /\ loop.pc = "threw" /\ ReportsFailure(loop.last)
  /\ loop.polledAt > 0
  /\ loop.elapsed + TaskRetryDelay < loop.maxWaitTime

\* C7: an error of a status request never ends waitForTask and is never what
\* it throws: the loop waits 5 seconds, tests the deadline and, in time, sends
\* the next request; an answer stopped/"0" after any number of errors makes it
\* return true.
C7_TransientErrorsRetried ==
  /\ [](loop.fn = "waitForTask" =>
          /\ loop.pc = "threw" =>
               \/ loop.message = TaskTimeout
               \/ ReportsFailure(loop.last) /\ loop.message = TaskFailed(loop.last.data.exitstatus)
          /\ (Handled /\ ~loop.last.ok) =>
               /\ loop.pc \in {"sleep", "test", "threw"}
               /\ loop.pc = "sleep" => loop.delay = TaskRetryDelay
               /\ loop.pc \in {"test", "threw"} =>
                    loop.elapsed = loop.repliedAt + TaskRetryDelay
               /\ loop.pc = "threw" => loop.elapsed >= loop.maxWaitTime
          /\ (loop.answered /\ loop.errors > 0 /\ ReportsExit0(loop.last)) =>
               loop.pc = "returned")
  /\ [][loop.fn = "waitForTask" => LoopTestDecides]_vars

C7_Witness ==
  /\ loop.fn = "waitForTask"
  /\ loop.pc = "returned"
  /\ loop.errors = MaxErrors

\* C8 as stated: the task timeout is thrown when the elapsed time equals
\* maxWaitTime.
C8_TimeoutAtDeadline ==
  (loop.fn = "waitForTask" /\ loop.pc = "threw" /\ loop.message = TaskTimeout) =>
    loop.elapsed = loop.maxWaitTime

\* C8 amended: without a terminal answer waitForTask throws the task timeout,
\* at the first loop test at which the elapsed time is maxWaitTime or more:
\* never before maxWaitTime, and less than one request plus one wait after it;
\* no request is sent once maxWaitTime has elapsed.
C8_TimeoutAfterDeadline ==
  /\ [](loop.fn = "waitForTask" =>
          /\ (loop.pc = "threw" /\ ~ReportsFailure(loop.last)) => loop.message = TaskTimeout
          /\ (loop.pc = "threw" /\ loop.message = TaskTimeout) =>
               /\ loop.elapsed >= loop.maxWaitTime
               /\ loop.elapsed < loop.maxWaitTime + MaxPollTime + TaskRetryDelay
          /\ loop.pc = "request" => loop.polledAt < loop.maxWaitTime)
  /\ [][(loop.fn = "waitForTask" /\ loop.pc = "test" /\ loop.elapsed >= loop.maxWaitTime) =>
          (loop'.pc = "threw" /\ loop'.message = TaskTimeout)]_vars

C8_Witness ==
  /\ loop.fn = "waitForTask" /\ loop.maxWaitTime = TaskMaxWait
  /\ loop.pc = "threw" /\ loop.message = TaskTimeout
  /\ loop.elapsed > loop.maxWaitTime

\* C9: waitForContainerStart returns true exactly when an answer to a request
\* sent before the deadline reports the status running; after another status
\* it waits 3 seconds, after an error 5 seconds, and asks again while in time;
\* once maxWaitTime has elapsed it throws the start timeout.
C9_WaitForRunning ==
  /\ [](loop.fn = "waitForContainerStart" =>
          /\ loop.pc = "returned" <=> (loop.answered /\ ReportsRunning(loop.last))
          /\ loop.pc \in {"request", "returned"} => loop.polledAt < loop.maxWaitTime
          /\ loop.pc = "sleep" =>
               loop.delay = IF loop.last.ok THEN StartPollInterval ELSE StartRetryDelay
          /\ (Handled /\ loop.pc \in {"test", "threw"}) =>
               loop.elapsed = loop.repliedAt
                  + (IF loop.last.ok THEN StartPollInterval ELSE StartRetryDelay)
          /\ loop.pc = "threw" =>
               /\ loop.message = StartTimeout
               /\ loop.elapsed >= loop.maxWaitTime)
  /\ [][loop.fn = "waitForContainerStart" =>
          /\ LoopTestDecides
          /\ (loop.pc = "idle" /\ loop'.maxWaitTime # ShortWait) => loop'.maxWaitTime = 120]_vars

C9_Witness ==
  /\ loop.fn = "waitForContainerStart" /\ loop.maxWaitTime = StartMaxWait
  /\ loop.pc = "returned"
  /\ loop.errors > 0
  /\ loop.elapsed > StartRetryDelay + StartPollInterval

\* C11: a polling loop that was started ends, returning or throwing, whatever
\* the answers, errors and missing answers (a request is over after at most
\* MaxPollTime); the time it has run never reaches its maxWaitTime (300 s,
\* 120 s by default) plus one request and one wait.
C11_LoopsTerminate ==
  /\ (loop.pc # "idle") ~> (loop.pc \in {"returned", "threw"})
  /\ [](loop.pc # "idle" =>
          loop.elapsed < loop.maxWaitTime + MaxPollTime
                           + (IF loop.fn = "waitForTask" THEN TaskRetryDelay
                              ELSE StartRetryDelay))

C11_Witness ==
  /\ loop.fn = "waitForContainerStart" /\ loop.maxWaitTime = StartMaxWait
  /\ loop.pc = "threw" /\ loop.message = StartTimeout
  /\ loop.errors = MaxErrors
  /\ ~HasData(loop.last) /\ loop.last.ok
  /\ loop.elapsed > loop.maxWaitTime

(***************************************************************************)
(* Properties of getContainerIP (SpecResolve).                             *)
(***************************************************************************)
\* the answer to the configuration request carries net0
HasNet0 == HasData(resolve.config) /\ "net0" \in DOMAIN resolve.config.data

\* net0 reads ip=<addr>/<prefix> at lexeme i, <addr> being an address
DeclaresStaticAt(net0, i) ==
  /\ i + 3 <= Len(net0)
  /\ net0[i] = "ip=" /\ net0[i + 2] = "/"
  /\ net0[i + 1] \notin {"dhcp", "manual", "/", ","}
  /\ net0[i + 3] \notin {"/", ","}

\* C16: when the declared configuration reads ip=<addr>/<prefix>,
\* getContainerIP returns <addr>, without the prefix, and the agent request
\* is never sent.
C16_StaticAddress ==
  HasNet0 =>
    \A i \in 1..Len(resolve.config.data.net0) :
      DeclaresStaticAt(resolve.config.data.net0, i) =>
        /\ resolve.pc = "returned"
        /\ resolve.ip = Str(resolve.config.data.net0[i + 1])
        /\ ~resolve.asked

C16_Witness ==
  /\ resolve.pc = "returned"
  /\ HasNet0 /\ Len(resolve.config.data.net0) > 6
  /\ resolve.ip = Str("192.168.1.20")
  /\ ~resolve.asked

\* the configuration request was answered and declares no address: no net0,
\* no ip part in it, or ip=dhcp
NoDeclaredAddress ==
  /\ resolve.pc \in {"agent", "returned"}
  /\ resolve.config.ok
  /\ HasNet0 =>
       \A i \in 1..Len(resolve.config.data.net0) :
         resolve.config.data.net0[i] = "ip=" =>
           /\ i < Len(resolve.config.data.net0)
           /\ resolve.config.data.net0[i + 1] = "dhcp"

\* the agent answered with a list of interfaces
HasInterfaces == HasData(resolve.agent) /\ "result" \in DOMAIN resolve.agent.data

\* <<n, m>>: the m-th address entry of the n-th interface, for the interfaces
\* named eth0
Eth0Entries ==
  LET ifs == resolve.agent.data.result
  IN  UNION { {<<n, m>> : m \in 1..Len(ifs[n].ip_addresses)} :
                n \in {k \in 1..Len(ifs) :
                         ifs[k].name = "eth0" /\ "ip_addresses" \in DOMAIN ifs[k]} }

EntryAt(p) == resolve.agent.data.result[p[1]].ip_addresses[p[2]]

\* every visited entry carries its address
WellFormed == \A p \in Eth0Entries : "address" \in DOMAIN EntryAt(p)

\* an IPv4 address that is not loopback
NonLoopbackIPv4(p) ==
  /\ "address" \in DOMAIN EntryAt(p)
  /\ EntryAt(p).type = "ipv4"
  /\ EntryAt(p).address[1] # "127."

ReportedBefore(q, p) == q[1] < p[1] \/ (q[1] = p[1] /\ q[2] < p[2])

\* C17: when the configuration declares no address, the agent is asked, and
\* what getContainerIP returns is the address of the first entry, in reported
\* order, of eth0 that is IPv4 and not loopback (null when there is none);
\* whatever the answer, an address returned is such an entry of eth0: never
\* one of another interface only, never IPv6, never loopback.
C17_AgentAddress ==
  NoDeclaredAddress =>
    /\ resolve.asked
    /\ (resolve.pc = "returned" /\ resolve.ip # Null) =>
         /\ HasInterfaces
         /\ \E p \in Eth0Entries :
              NonLoopbackIPv4(p) /\ resolve.ip = Str(Concat(EntryAt(p).address))
    /\ (resolve.pc = "returned" /\ HasInterfaces /\ WellFormed) =>
         IF \E p \in Eth0Entries : NonLoopbackIPv4(p)
         THEN \E p \in Eth0Entries :
                /\ NonLoopbackIPv4(p)
                /\ \A q \in Eth0Entries : ReportedBefore(q, p) => ~NonLoopbackIPv4(q)
                /\ resolve.ip = Str(Concat(EntryAt(p).address))
         ELSE resolve.ip = Null

C17_Witness ==
  /\ resolve.pc = "returned" /\ NoDeclaredAddress /\ HasNet0
  /\ HasInterfaces /\ Len(resolve.agent.data.result) = 2
  /\ resolve.agent.data.result[1] =
       [name |-> "eth1", ip_addresses |-> <<[type |-> "ipv4", address |-> <<"10.0.0.6">>]>>]
  /\ resolve.agent.data.result[2] =
       [name |-> "eth0",
        ip_addresses |-> << [type |-> "ipv4", address |-> <<"127.", "0.0.1">>],
                            [type |-> "ipv4", address |-> <<"10.0.0.5">>] >>]
  /\ resolve.ip = Str("10.0.0.5")

\* C18: getContainerIP never throws and, once called, always has a next step
\* until it returns; it returns a string or null; it returns null when the
\* configuration request fails, and when no address is declared and the agent
\* request fails, has no data, no list of interfaces, or no entry of eth0
\* that is IPv4 and not loopback.
C18_NeverFails ==
  /\ resolve.pc # "threw"
  /\ resolve.pc \in {"config", "agent"} => ENABLED NextResolve
  /\ resolve.pc = "returned" =>
       /\ resolve.ip = Null \/ resolve.ip[1] = "string"
       /\ ~resolve.config.ok => (resolve.ip = Null /\ ~resolve.asked)
       /\ (NoDeclaredAddress /\ ~HasInterfaces) => resolve.ip = Null
       /\ (NoDeclaredAddress /\ HasInterfaces
             /\ ~\E p \in Eth0Entries : NonLoopbackIPv4(p)) => resolve.ip = Null

C18_Witness ==
  /\ resolve.pc = "returned"
  /\ HasNet0 /\ NoDeclaredAddress
  /\ ~resolve.agent.ok
  /\ resolve.ip = Null

(***************************************************************************)
(* Properties of the configuration merge (SpecMerge).                      *)
(***************************************************************************)
\* the value of a field: the caller's when supplied, else the environment's
\* default when set, else the fallback
CallerEnvFallback(supplied, variable, fallback) ==
  IF supplied # Undefined THEN supplied
  ELSE IF variable \in DOMAIN env THEN env[variable]
  ELSE fallback

\* C19: in the configuration posted, each of cores, memory, swap, disk size,
\* net0, password, unprivileged and start carries the caller's value when
\* the caller supplied one (0 and "" included), otherwise the default of the
\* environment, otherwise the hard-coded fallback.
C19_CallerValuesWin ==
  merge.pc = "merged" =>
    LET in == merge.config
        out == merge.containerConfig
    IN  /\ out.cores = CallerEnvFallback(in.cores, "CT_DEFAULT_CORES", Num(1))
        /\ out.memory = CallerEnvFallback(in.memory, "CT_DEFAULT_MEMORY", Num(512))
        /\ out.swap = CallerEnvFallback(in.swap, "none", Num(512))
        /\ out.rootfs =
             Str("local-lvm:" \o Interp(CallerEnvFallback(in.disk, "CT_DEFAULT_DISK", Num(8))))
        /\ out.net0 =
             CallerEnvFallback(in.net0, "none", Str("name=eth0,bridge=vmbr0,ip=dhcp"))
        /\ out.password =
             CallerEnvFallback(in.password, "CT_DEFAULT_PASSWORD", Str("password"))
        /\ out.unprivileged = CallerEnvFallback(in.unprivileged, "none", Num(1))
        /\ out.start = CallerEnvFallback(in.start, "none", Num(1))

Encrypted == crypt.pc = "encrypted"

\* decrypt was called, whatever it was given
DecryptCalled == crypt.pc \in {"decrypted", "threw"}

\* C21: encrypt of an absent or empty text returns null, decrypt of an
\* absent, null or empty text returns null, and neither throws.
C21_NullOnEmpty ==
  /\ (Encrypted /\ crypt.text \in {Undefined, Null, Str("")}) => crypt.encrypted = Null
  /\ (DecryptCalled /\ crypt.encrypted \in {Undefined, Null, Str("")}) =>
       /\ crypt.pc = "decrypted"
       /\ crypt.decrypted = Null

C21_Witness ==
  /\ crypt.pc = "decrypted"
  /\ crypt.encrypted = Str("")
  /\ crypt.decrypted = Null

\* encrypt was called twice on one text that is not empty
EncryptedTwice == crypt.pc = "again" /\ ~Falsy(crypt.text)

LacksDelimiter(encryptedText) ==
  /\ ~Falsy(encryptedText)
  /\ Len(SplitColon(encryptedText)) < 2

\* C23: decrypt of a non-empty text without ':' throws; it returns neither a
\* plaintext nor null.
C23_MalformedThrows ==
  (DecryptCalled /\ LacksDelimiter(crypt.encrypted)) =>
    /\ crypt.pc = "threw"
    /\ IsThrown(crypt.decrypted)

C23_Witness ==
  /\ crypt.pc = "threw"
  /\ LacksDelimiter(crypt.encrypted)
  /\ crypt.decrypted = Thrown("TypeError")

\* letters, digits, '-' and '_'
UrlSafeChars == ({Base64Chars[i] : i \in 1..64} \ {"+", "/"}) \cup {"-", "_"}

\* C24: generatePassword(length) returns exactly length characters (16 when
\* no length is given), each a letter, a digit, '-' or '_', whatever bytes
\* the random source gives.
C24_UrlSafeLength ==
  crypt.pc = "generated" =>
    /\ Len(crypt.generated) = LengthOf(crypt.length)
    /\ \A i \in 1..Len(crypt.generated) : crypt.generated[i] \in UrlSafeChars

\* the envelopes encrypt makes of the passwords generated
PasswordEnvelopes ==
  {Encrypt(Str(Passwords[k]), IVs[j]) : k \in DOMAIN Passwords, j \in DOMAIN IVs}

\* C25: the password column of every record holds an envelope made by
\* encrypt, ivHex ':' cipherHex, never the password itself; the record of a
\* call holds the envelope of that call's password, and what createContainer
\* returns holds no password.
C25_StoredEncrypted ==
  /\ \A i \in DOMAIN db :
       /\ db[i].password \in PasswordEnvelopes
       /\ db[i].password[1] = "envelope" /\ Len(db[i].password) = 3
       /\ \A k \in DOMAIN Passwords : db[i].password # Str(Passwords[k])
  /\ \A c \in Returned :
       /\ Decrypt(RowOf(c).password) = calls[c].containerPassword
       /\ "password" \notin DOMAIN calls[c].result

C25_Witness ==
  \E c \in Returned :
    /\ ~Falsy(calls[c].containerPassword)
    /\ RowOf(c).password = Encrypt(calls[c].containerPassword, IVs[1])

\* C26: the listing holds every record exactly once, and of any two records
\* the one created later (the larger AUTOINCREMENT id) comes earlier, records
\* created in the same second included.
C26_ReverseCreationOrder ==
  store.op = "getAll" =>
    /\ Len(store.listed) = Len(db)
    /\ \A k \in DOMAIN db :
         Cardinality({i \in DOMAIN store.listed : store.listed[i].id = db[k].id}) = 1
    /\ \A i, j \in DOMAIN store.listed :
         i < j => store.listed[i].id > store.listed[j].id

\* the rows the latest updateStatus matched
Matched == {i \in DOMAIN store.before : store.before[i].ct_id = store.ct_id}

\* C27: an updateStatus that matched a record leaves its updated_at at the
\* second of that write; the updated_at of every record is the second of the
\* latest write to it, and never earlier than its created_at.
C27_UpdatedAtLatestWrite ==
  /\ \A i \in DOMAIN db :
       /\ db[i].updated_at = store.lastWrite[i]
       /\ db[i].updated_at >= db[i].created_at
  /\ store.op = "updateStatus" =>
       \A i \in Matched : db[i].updated_at = store.at

C27_Witness ==
  /\ store.op = "updateStatus"
  /\ store.changed
  /\ \E i \in Matched :
       /\ db[i].updated_at = store.at
       /\ db[i].updated_at > db[i].created_at
       /\ store.before[i].updated_at > store.before[i].created_at
       /\ db[i].updated_at > store.before[i].updated_at

\* C30: updateStatus(ct_id, status, ip_address) writes, in the record with
\* that ct_id, status, updated_at and, when ip_address is not empty,
\* ip_address, and nothing else; it leaves every other record as it was;
\* when no record has the ct_id nothing changes and it resolves false.
C30_UpdateFrame ==
  store.op = "updateStatus" =>
    /\ DOMAIN db = DOMAIN store.before
    /\ \A i \in DOMAIN db :
         IF i \in Matched
         THEN /\ db[i] = [store.before[i] EXCEPT
                            !.status = store.status,
                            !.updated_at = db[i].updated_at,
                            !.ip_address = IF store.ip_address \in {Null, Str("")}
                                           THEN @ ELSE store.ip_address]
              /\ db[i].id = store.before[i].id
              /\ db[i].ct_id = store.before[i].ct_id
              /\ db[i].name = store.before[i].name
              /\ db[i].username = store.before[i].username
              /\ db[i].password = store.before[i].password
              /\ db[i].jenkins_job_id = store.before[i].jenkins_job_id
              /\ db[i].created_at = store.before[i].created_at
         ELSE db[i] = store.before[i]
    /\ store.changed <=> Matched # {}
    /\ Matched = {} => db = store.before

\* an address was stored, and an updateStatus with an empty address left it
C30_Witness ==
  /\ store.op = "updateStatus"
  /\ store.ip_address = Str("")
  /\ Len(db) = 2
  /\ \E i \in Matched :
       /\ store.before[i].ip_address = Str("10.0.0.5")
       /\ db[i].ip_address = Str("10.0.0.5")
       /\ db[i].status # store.before[i].status

\* updateStatus was called with a ct_id no record has
C30_WitnessUnknown ==
  /\ store.op = "updateStatus"
  /\ Matched = {}
  /\ ~store.changed
  /\ db = store.before

\* a request to a protected route was answered
ProtectedAnswered == http.pc = "answered" /\ http.route \in ProtectedRoutes

\* a secret is configured, and the secret the request supplies
Configured == http.expectedSecret \notin {Undefined, Str("")}
Supplied == ProvidedSecret(http.headers, http.body)

\* C28: a protected route runs its handler only when a secret is configured
\* and the secret supplied equals it; without a configured secret the answer
\* is 500, with one and a missing or different secret it is 401, in both
\* cases with neither the handler nor the service invoked; the health checks
\* answer 200 whatever is supplied.
C28_AuthGuards ==
  /\ ProtectedAnswered =>
       /\ http.handler => (Configured /\ Supplied = http.expectedSecret)
       /\ http.service => http.handler
       /\ ~Configured =>
            (http.status = 500 /\ ~http.handler /\ ~http.service)
       /\ (Configured /\ Supplied # http.expectedSecret) =>
            (http.status = 401 /\ ~http.handler /\ ~http.service)
  /\ (http.pc = "answered" /\ http.route \in HealthRoutes) => http.status = 200

C28_Witness ==
  /\ ProtectedAnswered
  /\ http.route = AccessRoute
  /\ Configured
  /\ Get(http.headers, "x-webhook-secret") = http.expectedSecret
  /\ http.handler /\ http.service
  /\ http.status = 200

\* the latest request reached getContainerAccess of the service
AccessServed ==
  /\ http.pc = "answered"
  /\ http.route = AccessRoute
  /\ http.service

\* C29: get-access answers 404 "Container not found" when no record has the
\* ct_id, and 400 "Container is not running" when the record is not running.
C29_AccessErrors ==
  AccessServed =>
    IF ~HasCtId(db, http.body.ct_id)
    THEN http.status = 404 /\ http.error = NotFound
    ELSE FindByCtId(db, http.body.ct_id).status # Str("running") =>
           (http.status = 400 /\ http.error = NotRunning)

\* createContainer has chosen the id it posts
IdChosen == merge.pc = "merged" /\ merge.fn = "createContainer"

\* C31: getNextVMID is called only when the configuration holds no id (none,
\* or an empty one); it returns the id the cluster answered when it answered
\* one, and otherwise a number from 1000 to 9999; it always returns a number,
\* which is the id posted.
C31_NextIdFallback ==
  IdChosen =>
    /\ merge.asked <=> Falsy(Get(merge.config, "vmid"))
    /\ ~merge.asked => merge.containerConfig.vmid = merge.config.vmid
    /\ merge.asked =>
         /\ merge.nextId[1] = "number"
         /\ merge.containerConfig.vmid = merge.nextId
         /\ HasData(merge.response) => merge.nextId = ParseInt(merge.response.data)
         /\ ~HasData(merge.response) =>
              (merge.nextId[2] >= 1000 /\ merge.nextId[2] <= 9999)

C31_Witness ==
  /\ IdChosen
  /\ merge.asked
  /\ merge.response = Err(Undefined, NetworkError)
  /\ merge.random = <<99999, 100000>>
  /\ merge.nextId = Num(9999)

\* the request just answered passed webhookAuth with a body its schema rejects
InvalidBodyAnswered ==
  /\ http'.pc = "answered"
  /\ http'.handler
  /\ \/ http'.route = CreateRoute /\ ~CreateValid(http'.body)
     \/ http'.route = AccessRoute /\ ~GetAccessValid(http'.body)

\* C32: a create-container or get-access request whose body fails its schema
\* never reaches the service: the table, the id counter and the creations in
\* progress are as before, and the answer is 400 "Validation error" with the
\* field at fault in its details.
C32_InvalidNeverServed ==
  [][InvalidBodyAnswered =>
       /\ ~http'.service
       /\ db' = db /\ lastID' = lastID /\ calls' = calls
       /\ http'.status = 400
       /\ http'.error = ValidationError
       /\ http'.details # <<>>]_vars

C32_Witness ==
  /\ http.pc = "answered"
  /\ http.route = CreateRoute
  /\ http.handler
  /\ http.body = EmptyObj
  /\ http.status = 400
  /\ http.details = <<"name">>
  /\ ~http.service

\* the latest request was a create-container with valid fields and the
\* configured secret in the body field only
SecretInBodyOnly ==
  /\ http.pc = "answered"
  /\ http.route = CreateRoute
  /\ Configured
  /\ "x-webhook-secret" \notin DOMAIN http.headers
  /\ Get(http.body, "secret") = http.expectedSecret
  /\ {"name", "hostname"} \subseteq DOMAIN http.body
  /\ DOMAIN http.body \subseteq CreateKeys \cup {"secret"}

\* C33: a create-container request with the right secret in the body field
\* only, and valid fields otherwise, is authenticated and accepted: the
\* service is invoked and the answer is not a validation error.
C33_BodySecretAccepted ==
  SecretInBodyOnly =>
    /\ http.handler
    /\ http.service
    /\ http.status # 400

\* C34: the bundle of a getContainerAccess that succeeded holds an address, a
\* username and a password, none of them null; every record with status
\* running has an address.
C34_BundleComplete ==
  /\ access.granted =>
       /\ access.access.ip_address \notin {Null, Undefined}
       /\ access.access.username \notin {Null, Undefined}
       /\ access.access.password \notin {Null, Undefined}
  /\ \A i \in DOMAIN db :
       db[i].status = Str("running") => db[i].ip_address # Null

\* C35: the password getContainerAccess returns for the record of a call is
\* the password in the configuration that call posted to the hypervisor.
C35_AccessPasswordIsSubmitted ==
  access.granted =>
    \A c \in Returned :
      CtIdOf(c) = access.ct_id =>
        access.access.password = calls[c].containerConfig.password

\* C36: waitForContainerStart throws nothing but the start timeout, and that
\* only once maxWaitTime has elapsed: after every error of the status request,
\* a 404 included, it waits 5 seconds and tests the deadline again, so it ends
\* only by returning true or with the timeout; getContainerStatus by itself
\* rethrows the error of the request.
C36_OnlyTimeoutEndsWait ==
  /\ [](loop.fn = "waitForContainerStart" =>
          /\ loop.pc = "threw" =>
               /\ loop.message = StartTimeout
               /\ loop.elapsed >= loop.maxWaitTime
          /\ (Handled /\ ~loop.last.ok) =>
               /\ loop.pc \in {"sleep", "test", "threw"}
               /\ loop.pc = "sleep" => loop.delay = StartRetryDelay
               /\ loop.pc \in {"test", "threw"} =>
                    loop.elapsed = loop.repliedAt + StartRetryDelay
          /\ (loop.answered /\ ~loop.last.ok) =>
               /\ GetContainerStatus(loop.last).threw
               /\ GetContainerStatus(loop.last).message = loop.last.message)
  /\ [][(loop.fn = "waitForContainerStart" /\ loop.pc = "request") =>
          \A response \in LoopReplies(loop.fn) :
            ~response.ok => WaitForStartOnReply(response) = Sleep(StartRetryDelay)]_vars
  /\ [][(loop.fn = "waitForContainerStart" /\ loop.pc = "test"
            /\ loop.elapsed < loop.maxWaitTime) => loop'.pc = "request"]_vars

C36_Witness ==
  /\ loop.fn = "waitForContainerStart"
  /\ loop.pc = "test"
  /\ loop.last = Err(EmptyObj, HttpNotFound)
  /\ loop.elapsed = loop.repliedAt + StartRetryDelay
  /\ loop.elapsed < loop.maxWaitTime

\* two envelopes with one cipher part were given to decrypt
DecryptedBoth == crypt.pc = "both"

InsertRejected(c) == calls[c].pc = "insert" /\ calls'[c].pc = "failed"

\* C38: when ProxmoxService.createContainer succeeded and the INSERT is
\* rejected, createContainer throws, schedules no follow-up, and leaves the
\* table, the record that holds the ct_id included, as it was; the invocation
\* takes no further step, so no request at all, a deletion included, is sent
\* for the resource it created.
C38_InsertFailureNoCleanup ==
  /\ [][\A c \in Calls : InsertRejected(c) =>
          /\ calls[c].startOk
          /\ db' = db /\ lastID' = lastID
          /\ calls'[c].error # <<>>
          /\ calls'[c].timer = "none"
          /\ \A d \in Calls \ {c} : calls'[d] = calls[d]]_vars
  /\ [][\A c \in Calls : calls[c].pc = "failed" => calls'[c] = calls[c]]_vars
  /\ [](\A c \in Calls : calls[c].pc = "failed" => calls[c].timer = "none")

C38_Witness ==
  \E c \in Calls :
    /\ calls[c].pc = "failed"
    /\ calls[c].error = ServiceFail(UniqueViolation)
    /\ Len(db) = 1
    /\ db[1].ct_id = Str("101") /\ db[1].status = Str("running")
    /\ \E d \in Calls \ {c} : calls[d].pc = "returned" /\ calls[d].timer = "done"

\* the run of waitForTask has had no error so far
NoErrorYet == loop.counting /\ loop.errors = 0

\* C39 as stated: without errors waitForTask sends at most maxWaitTime / 2
\* requests.
C39_AtMostHalfMaxWait ==
  NoErrorYet => loop.polls * TaskPollInterval <= loop.maxWaitTime

\* C39: waitForTask sends no request once maxWaitTime has elapsed, and two
\* consecutive requests are at least 2 seconds apart; without errors the n-th
\* request is sent 2 (n - 1) seconds or more after the start, so a task that
\* never stops is asked for at most maxWaitTime / 2 times, rounded up: 150
\* times in 300 seconds.
C39_PollsBounded ==
  /\ [](loop.counting =>
          /\ loop.pc = "request" => loop.polledAt < loop.maxWaitTime
          /\ loop.prevPolledAt >= 0 =>
               loop.polledAt - loop.prevPolledAt >= TaskPollInterval
          /\ (NoErrorYet /\ loop.polls > 0) =>
               /\ loop.polledAt >= TaskPollInterval * (loop.polls - 1)
               /\ TaskPollInterval * (loop.polls - 1) < loop.maxWaitTime
          /\ (NoErrorYet /\ loop.maxWaitTime = TaskMaxWait) => loop.polls <= 150)
  /\ [][(loop.counting /\ loop.pc = "test" /\ loop.elapsed >= loop.maxWaitTime) =>
          (loop'.pc = "threw" /\ loop'.polls = loop.polls)]_vars

C39_Witness ==
  /\ NoErrorYet
  /\ loop.maxWaitTime = TaskMaxWait
  /\ loop.pc = "threw" /\ loop.message = TaskTimeout
  /\ loop.polls = 150
  /\ loop.elapsed = TaskMaxWait

\* the id in the body of the POST of invocation c
SubmittedId(c) == calls[c].containerConfig.vmid

\* C40: one invocation of createContainer uses one id: the vmid of the body
\* posted (additionalConfig spread in) is the id waitForContainerStart polls,
\* the vmid ProxmoxService.createContainer returns, the ct_id of the record
\* written and of the result returned, the id the follow-up gives to
\* getContainerIP and, as a string, to updateStatus.
C40_OneIdThroughout ==
  \A c \in Calls :
    /\ (calls[c].posted /\ "vmid" \in DOMAIN AdditionalOf(calls[c].requestData)) =>
         SubmittedId(c) = calls[c].requestData.additionalConfig.vmid
    /\ calls[c].pc \in {"statusPoll", "statusWait", "insert", "returned"} =>
         calls[c].polledVmid = SubmittedId(c)
    /\ calls[c].pc \in {"insert", "returned"} =>
         calls[c].proxmoxResult.vmid = SubmittedId(c)
    /\ calls[c].pc = "returned" =>
         /\ calls[c].result.ct_id = SubmittedId(c)
         /\ \E i \in DOMAIN db :
              /\ Num(db[i].id) = calls[c].result.id
              /\ db[i].ct_id = Str(toString(SubmittedId(c)))
    /\ calls[c].timer \in {"grace", "config", "agent", "done"} =>
         calls[c].ipVmid = SubmittedId(c)
    /\ calls[c].timer = "done" =>
         calls[c].updatedCtId = Str(toString(SubmittedId(c)))

C40_Witness ==
  \E c \in Calls :
    /\ calls[c].pc = "returned" /\ calls[c].timer = "done"
    /\ calls[c].requestData.additionalConfig = [vmid |-> Num(555)]
    /\ SubmittedId(c) = Num(555)
    /\ calls[c].updatedCtId = Str("555")
    /\ \E i \in DOMAIN db : db[i].ct_id = Str("555") /\ db[i].status = Str("running")

====
